---------------------------- MODULE Spec2Model ----------------------------
(***************************************************************************)
(* Model of the SQL validation pipeline of the workbench:                  *)
(*   src/sql_validator.py    SQLValidator (validate, _load_schema, fuzzy   *)
(*                           matching)                                     *)
(*   src/query_visualizer.py QueryVisualizer (plan builder)                *)
(*                                                                         *)
(* A Python str holding SQL is modelled as the sequence of its lexemes     *)
(* (keywords, names, literals, punctuation, whitespace).  A name or word   *)
(* handed to the edit distance is modelled as the sequence of its          *)
(* characters.  Python values that may be None are tagged tuples           *)
(* (PyNone, PyStr, PyList).                                                *)
(***************************************************************************)
EXTENDS Integers, Sequences, FiniteSets, TLC

VARIABLES
    dbTables,         \* backend: the user tables that exist in the database file
    dbRows,           \* backend: the rows (values of Sage) each user table holds
    sent,             \* what the running command has sent to the backend, with its answers
    exec_result,      \* value returned by execute_and_visualize in this command
    conn,             \* SQLValidator.conn / .cursor: "None" or "open"
    tables,           \* SQLValidator.tables : table name -> sequence of column names
    columns,          \* SQLValidator.columns: column name -> sequence of table names
    pc,               \* position of the running call
    sql_query,        \* argument of the running call (sequence of lexemes)
    loaded,           \* did _load_schema of the running validate call return True
    checked,          \* steps of validate that ran: subset of {"syntax","parse","extract","probe"}
    connFailed,       \* _connect_db call sites (source lines) whose connect failed in this call
    tables_in_query,  \* validate's local tables_in_query
    invalid_tables,   \* validate's local invalid_tables
    probe,            \* answer of the backend to EXPLAIN <statement> in this call
    result,           \* value returned by the call (or the exception that escaped it)
    vconn,            \* QueryVisualizer.conn / .cursor: "None" or "open"
    exec_query,       \* text the shell handed to execute_and_visualize in this command
    s1, s2,           \* arguments of _levenshtein_distance and _calculate_similarity
    distance,         \* value returned by _levenshtein_distance
    similarity,       \* value returned by _calculate_similarity
    name,             \* arguments of _find_similar_names ...
    name_list,
    threshold,
    similar_names,    \* ... and the list it returned
    statement,        \* text handed to the extractors and to _parse_sql_manually
    found_tables,     \* value returned by _extract_tables
    found_columns,    \* value returned by _extract_columns
    manual_plan,      \* outcome of _parse_sql_manually: the plan returned or the exception
    error_msg,        \* arguments of _generate_suggestions_for_error: the message ...
    passed,           \* ... and the pair << tables, columns >>
    returned_suggestions, \* value returned by _generate_suggestions_for_error
    session_text,     \* text typed at the prompt, handed to execute_sql_statements
    statements,       \* fragments of that text the loop of execute_sql_statements has yet to take
    validated         \* texts that loop has handed to validate, in order

vars == << dbTables, dbRows, sent, exec_result, conn, tables, columns, pc, sql_query, loaded, checked,
           connFailed, tables_in_query, invalid_tables, probe, result,
           vconn, exec_query, s1, s2, distance, similarity,
           name, name_list, threshold, similar_names,
           statement, found_tables, found_columns, manual_plan,
           error_msg, passed, returned_suggestions, session_text, statements, validated >>

callVars == << sql_query, loaded, checked, connFailed, tables_in_query,
              invalid_tables, probe >>

catalogVars == << tables, columns >>

levVars == << s1, s2, distance, similarity >>

fuzzyVars == << name, name_list, threshold, similar_names >>

extractVars == << statement, found_tables, found_columns, manual_plan >>

suggestVars == << error_msg, passed, returned_suggestions >>

sessionVars == << session_text, statements, validated >>

\* the variables the calls of the validator and of the visualizer leave
\* alone: those of the pure functions and those of the statement loop
pureVars == << levVars, fuzzyVars, extractVars, suggestVars, sessionVars >>

-----------------------------------------------------------------------------
(* Bounds of the model *)

\* longest input of validate, counted in statements separated by ';'
MaxStmts == 2

\* longest string handed to the edit distance
MaxStrLen == 3

\* longest name_list handed to _find_similar_names
MaxPool == 2

\* longest message handed to _generate_suggestions_for_error, in pieces
MaxPieces == 2

-----------------------------------------------------------------------------
(* Python values *)

PyNone == << "None" >>
PyStr(s) == << "str", s >>
PyList(l) == << "list", l >>
PyRaise(e) == << "raise", e >>

Min2(a, b) == IF a <= b THEN a ELSE b
Min3(a, b, c) == Min2(a, Min2(b, c))
Max2(a, b) == IF a >= b THEN a ELSE b


-----------------------------------------------------------------------------
(* SQL text: lexemes, and what the tokenizer library (sqlparse) makes of   *)
(* them.  Blanks between lexemes are left out where nothing reads them;    *)
(* the lexeme " " is whitespace that is read (str.strip, all-whitespace).  *)

\* table names that occur in the inputs; Studnet is a misspelt Student
QueryTables == { "Student", "Studnet", "sqlite_master" }

\* the user tables the database file may hold, and their columns
UserTables == { "Student", "Teacher" }

DbColumns(t) ==
    CASE t = "Student" -> << "Sno", "Sname" >>
      [] t = "Teacher" -> << "Tno", "Sname" >>
      [] OTHER         -> << >>

\* the internal tables the database file holds besides the user tables
SystemTables == { "sqlite_sequence" }

\* order in which sqlite_master lists the tables
TableOrder == << "Student", "sqlite_sequence", "Teacher" >>

\* token type the lexer gives a lexeme
TType(x) ==
    CASE x \in { "SELECT", "DELETE", "INSERT", "UPDATE" }
                                       -> "DML"
      [] x = "DROP"                    -> "DDL"
      [] x \in { "FROM", "JOIN", "ON", "AS", "WHERE", "IN", "AND", "ORDER BY",
                 "GROUP BY", "LIMIT", "INTO", "VALUES", "SET", "TABLE" }
                                       -> "Keyword"
      [] x = "*"                       -> "Wildcard"
      [] x \in { "(", ")", ";", "," }  -> "Punctuation"
      [] x \in { "=", ">" }            -> "Comparison"
      [] x = " "                       -> "Whitespace"
      [] x = "'('"                     -> "String"
      [] x \in { "1", "5", "18" }      -> "Number"
      [] OTHER                         -> "Name"

\* number of occurrences of the character ch in the text of lexeme x
CharsIn(x, ch) ==
    CASE ch = "(" /\ x \in { "(", "'('" } -> 1
      [] ch = ")" /\ x = ")"              -> 1
      [] OTHER                            -> 0

RECURSIVE Count(_, _)
\* str.count(ch) of the text q
Count(q, ch) ==
    IF q = << >> THEN 0 ELSE CharsIn(Head(q), ch) + Count(Tail(q), ch)

IsWhitespace(q) == \A i \in 1..Len(q) : TType(q[i]) = "Whitespace"

\* not text.strip()
StripIsEmpty(q) == IsWhitespace(q)

RECURSIVE LStrip(_)
\* str.lstrip()
LStrip(q) == IF q # << >> /\ TType(Head(q)) = "Whitespace" THEN LStrip(Tail(q)) ELSE q

Reverse(q) == [i \in 1..Len(q) |-> q[Len(q) + 1 - i]]

\* str.strip(): the text without the whitespace at its two ends
Strip(q) == Reverse(LStrip(Reverse(LStrip(q))))

\* the upper-case form of a keyword written in lower case; SQL reads a
\* keyword in either case
KeywordOf(x) ==
    CASE x = "select" -> "SELECT"
      [] x = "delete" -> "DELETE"
      [] x = "from"   -> "FROM"
      [] OTHER        -> x

\* str.upper() of a lexeme
Upper(x) ==
    CASE x = "Student"       -> "STUDENT"
      [] x = "Studnet"       -> "STUDNET"
      [] x = "Teacher"       -> "TEACHER"
      [] x = "sqlite_master" -> "SQLITE_MASTER"
      [] OTHER               -> KeywordOf(x)

RECURSIVE SplitRun(_, _, _, _, _)
\* sqlparse's statement splitter: one pass over the lexemes; a statement ends
\* at a ';' met at parenthesis level <= 0, whitespace after it still belongs
\* to it, and a trailing statement of whitespace alone is dropped.
SplitRun(q, cur, level, consume_ws, out) ==
    IF q = << >>
    THEN IF cur # << >> /\ ~IsWhitespace(cur) THEN Append(out, cur) ELSE out
    ELSE IF consume_ws /\ TType(Head(q)) # "Whitespace"
    THEN SplitRun(q, << >>, 0, FALSE, Append(out, cur))
    ELSE LET x    == Head(q)
             lvl1 == level + (IF x = "(" THEN 1 ELSE IF x = ")" THEN -1 ELSE 0)
         IN  SplitRun(Tail(q), Append(cur, x), lvl1,
                      consume_ws \/ (lvl1 <= 0 /\ x = ";"), out)

\* sqlparse.parse(text): the statements of the text, each as its lexemes
Parse(q) == SplitRun(q, << >>, 0, FALSE, << >>)

-----------------------------------------------------------------------------
(* The inputs *)

\* what stands between SELECT and FROM: a wildcard, a string literal that
\* holds a parenthesis, an expression in parentheses, expressions with a
\* parenthesis too many, and a closing parenthesis before an opening one
ColExprs ==
    { << "*" >>, << "'('" >>, << "(", "1", ")" >>, << "1", ")" >>, << "(", "1" >>,
      << ")", "(" >> }

\* the empty text, a blank, and SELECT statements over the column
\* expressions and over the table names
Fragments ==
    { << >>, << " " >> }
    \cup { << "SELECT" >> \o e \o << "FROM", "Student" >> : e \in ColExprs }
    \cup { << "SELECT", "*", "FROM", t >> : t \in QueryTables }
    \cup { << "SELECT", "*", "FROM", "Student", ",", "1" >> }

RECURSIVE TextsOf(_)
\* the texts of at most n fragments, joined by ';'
TextsOf(n) ==
    IF n <= 1 THEN Fragments
    ELSE TextsOf(n - 1)
         \cup { q \o << ";" >> \o f : q \in TextsOf(n - 1), f \in Fragments }

Queries == TextsOf(MaxStmts)

-----------------------------------------------------------------------------
(* The grouped token tree of a statement (sqlparse grouping) *)

RECURSIVE MatchClose(_, _, _)
\* index of the ')' that closes the '(' before position i (depth counts the
\* parentheses open at i), or 0 when it is never closed
MatchClose(ts, i, depth) ==
    IF i > Len(ts) THEN 0
    ELSE IF ts[i] = "(" THEN MatchClose(ts, i + 1, depth + 1)
    ELSE IF ts[i] = ")"
         THEN IF depth = 1 THEN i ELSE MatchClose(ts, i + 1, depth - 1)
    ELSE MatchClose(ts, i + 1, depth)

\* a leaf token; a name (or a quoted symbol) is grouped into an Identifier
Leaf(x) ==
    [cls    |-> IF TType(x) = "Name" THEN "Identifier" ELSE "Token",
     ttype  |-> IF TType(x) = "Name" THEN "None" ELSE TType(x),
     value  |-> x,
     tokens |-> << >>]

\* a group token of class cls over the tokens toks
GroupToken(cls, toks) ==
    [cls |-> cls, ttype |-> "None", value |-> cls, tokens |-> toks]

\* what can stand on either side of a comparison operator
IsOperand(t) ==
    t.cls \in { "Identifier", "Parenthesis" } \/ t.ttype \in { "Number", "String" }

RECURSIVE Comparisons(_)
\* grouping of <operand> <comparison operator> <operand> into a Comparison
Comparisons(toks) ==
    IF toks = << >> THEN << >>
    ELSE IF /\ Len(toks) >= 3
            /\ IsOperand(toks[1])
            /\ toks[2].ttype = "Comparison"
            /\ IsOperand(toks[3])
         THEN << GroupToken("Comparison", SubSeq(toks, 1, 3)) >>
              \o Comparisons(SubSeq(toks, 4, Len(toks)))
         ELSE << Head(toks) >> \o Comparisons(Tail(toks))

\* what can be an element of a comma-separated list
IsListItem(t) ==
    \/ t.cls \in { "Identifier", "Comparison" }
    \/ t.ttype \in { "Number", "String", "Keyword", "DML", "Wildcard" }

RECURSIVE ListEnd(_, _)
\* index of the last element of the comma-separated list that starts at i
ListEnd(toks, i) ==
    IF /\ i + 2 <= Len(toks)
       /\ toks[i + 1].value = ","
       /\ IsListItem(toks[i + 2])
    THEN ListEnd(toks, i + 2)
    ELSE i

RECURSIVE Lists(_)
\* grouping of element , element ... into an IdentifierList; its tokens are
\* its elements (what get_identifiers() yields), the commas left out
Lists(toks) ==
    IF toks = << >> THEN << >>
    ELSE LET e == IF IsListItem(toks[1]) THEN ListEnd(toks, 1) ELSE 1
         IN  IF e > 1
             THEN << GroupToken("IdentifierList",
                                [k \in 1..((e + 1) \div 2) |-> toks[2 * k - 1]]) >>
                  \o Lists(SubSeq(toks, e + 1, Len(toks)))
             ELSE << Head(toks) >> \o Lists(Tail(toks))

RECURSIVE Aliases(_)
\* grouping of <identifier> AS <identifier> and of <identifier> <identifier>
\* into one Identifier: its value stays the name, its tokens are the grouped
\* ones (name, AS, alias); a parenthesis followed by an alias is grouped the
\* same way, and the only name of that Identifier is the alias
Aliases(toks) ==
    IF toks = << >> THEN << >>
    ELSE LET n == IF toks[1].cls \notin { "Identifier", "Parenthesis" } THEN 1
                  ELSE IF /\ Len(toks) >= 3
                          /\ toks[2].ttype = "Keyword" /\ toks[2].value = "AS"
                          /\ toks[3].cls = "Identifier"
                       THEN 3
                  ELSE IF Len(toks) >= 2 /\ toks[2].cls = "Identifier" THEN 2
                  ELSE 1
         IN  << IF n = 1 THEN toks[1]
                ELSE [cls |-> "Identifier", ttype |-> "None",
                      value |-> IF toks[1].cls = "Parenthesis"
                                THEN toks[n].value ELSE toks[1].value,
                      tokens |-> SubSeq(toks, 1, n)] >>
             \o Aliases(SubSeq(toks, n + 1, Len(toks)))

\* token.value of an Identifier: its text, lexeme by lexeme
Text(tok) ==
    IF tok.tokens = << >> THEN << tok.value >>
    ELSE [i \in 1..Len(tok.tokens) |-> tok.tokens[i].value]

\* the keywords that end a WHERE clause
WhereClosers == { "ORDER BY", "GROUP BY", "LIMIT" }

\* least index from..Len(toks) of a keyword token whose text is in texts, or 0
FirstKeyword(toks, from, texts) ==
    LET S == { i \in from..Len(toks) :
                 toks[i].ttype = "Keyword" /\ toks[i].value \in texts }
    IN  IF S = {} THEN 0 ELSE CHOOSE i \in S : \A j \in S : i <= j

\* grouping of WHERE and what follows it, up to a closing keyword or the end
\* of the token list, into one Where token
Wheres(toks) ==
    LET w == FirstKeyword(toks, 1, { "WHERE" })
        c == IF w = 0 THEN 0 ELSE FirstKeyword(toks, w + 1, WhereClosers)
        e == IF c = 0 THEN Len(toks) ELSE c - 1
    IN  IF w = 0 THEN toks
        ELSE SubSeq(toks, 1, w - 1)
             \o << GroupToken("Where", Lists(Aliases(Comparisons(SubSeq(toks, w, e))))) >>
             \o SubSeq(toks, e + 1, Len(toks))

RECURSIVE Group(_), Parens(_)
\* grouping of a closed pair of parentheses and what it holds into one
\* Parenthesis token; every other lexeme becomes a leaf
Parens(ts) ==
    IF ts = << >> THEN << >>
    ELSE LET x == Head(ts)
             m == IF x = "(" THEN MatchClose(ts, 2, 1) ELSE 0
         IN  IF m > 0
             THEN << GroupToken("Parenthesis", Group(SubSeq(ts, 2, m - 1))) >>
                  \o Parens(SubSeq(ts, m + 1, Len(ts)))
             ELSE << Leaf(x) >> \o Parens(Tail(ts))

\* statement.tokens: the grouped token tree of the lexemes ts; the groupings
\* run in the tokenizer's order: parentheses, where, identifiers,
\* comparisons, aliases, identifier lists
Group(ts) == Lists(Aliases(Comparisons(Wheres(Parens(ts)))))

\* str.split('.', 1) on the names the model uses
DotSplit(x) ==
    CASE x = "Student.Sno"   -> << "Student", "Sno" >>
      [] x = "Student.Sname" -> << "Student", "Sname" >>
      [] x = "Teacher.Tno"   -> << "Teacher", "Tno" >>
      [] x = "a.Sno"         -> << "a", "Sno" >>
      [] x = "b.Sno"         -> << "b", "Sno" >>
      [] OTHER               -> << x >>

\* str.strip('"') on the names the model uses
Unquote(x) ==
    CASE x = "\"Sname\""   -> "Sname"
      [] x = "\"Student\"" -> "Student"
      [] x = "\"Teacher\"" -> "Teacher"
      [] OTHER             -> x

\* Identifier.get_real_name(): the name after the last dot, quotes removed
get_real_name(tok) ==
    LET parts == DotSplit(tok.value) IN Unquote(parts[Len(parts)])

\* Statement.get_type(): the text of the first token when it is a DML
\* keyword, UNKNOWN otherwise
get_type(parsed) ==
    LET ts == SelectSeq(parsed, LAMBDA x : TType(x) # "Whitespace")
    IN  IF ts # << >> /\ TType(ts[1]) = "DML" THEN ts[1] ELSE "UNKNOWN"

\* token.is_keyword: the type is Keyword or one of its sub-types (DML and
\* DDL are two)
is_keyword(tok) == tok.ttype \in { "Keyword", "DML", "DDL" }

RECURSIVE ExtractRun(_, _, _)
\* ExtractRun with the expectation cleared by the ON keyword too
ExtractRun_OnClears(toks, from_or_join_seen, tables_found) ==
    IF toks = << >> THEN tables_found
    ELSE LET token == Head(toks)
         IN  IF is_keyword(token) /\ Upper(token.value) \in { "FROM", "JOIN" }
             THEN ExtractRun(Tail(toks), TRUE, tables_found)
             ELSE IF from_or_join_seen
             THEN ExtractRun(Tail(toks),
                             ~(is_keyword(token) /\ Upper(token.value) \notin { "AS", "," }),
                             IF token.cls = "Identifier"
                             THEN Append(tables_found, get_real_name(token))
                             ELSE IF token.cls = "IdentifierList"
                             THEN tables_found \o
                                  [i \in 1..Len(token.tokens) |->
                                      get_real_name(token.tokens[i])]
                             ELSE tables_found)
             ELSE ExtractRun(Tail(toks), FALSE, tables_found)

\* the grouped token walk of _extract_tables, lines 161-181 (its flattened
\* walk, lines 142-159, fills a list nothing reads); the recursion of line
\* 181 asks for a Statement among the tokens of a statement, which the
\* tokenizer never nests
ExtractRun(toks, from_or_join_seen, tables_found) ==
    IF toks = << >> THEN tables_found
    ELSE LET token == Head(toks)
         IN  IF is_keyword(token) /\ Upper(token.value) \in { "FROM", "JOIN" }
             THEN ExtractRun(Tail(toks), TRUE, tables_found)
             ELSE IF from_or_join_seen
             THEN ExtractRun(Tail(toks),
                             ~(is_keyword(token) /\ Upper(token.value) \notin { "AS", "ON", "," }),
                             IF token.cls = "Identifier"
                             THEN Append(tables_found, get_real_name(token))
                             ELSE IF token.cls = "IdentifierList"
                             THEN tables_found \o
                                  [i \in 1..Len(token.tokens) |->
                                      get_real_name(token.tokens[i])]
                             ELSE tables_found)
             ELSE ExtractRun(Tail(toks), FALSE, tables_found)

RECURSIVE ExtractRaises(_, _)
\* the walk of _extract_tables raises AttributeError: line 175 calls
\* get_real_name() on every element of an identifier list met while a table
\* reference is expected, and an element that is a plain token (a number, a
\* string literal) has no such method
ExtractRaises(toks, from_or_join_seen) ==
    IF toks = << >> THEN FALSE
    ELSE LET token == Head(toks)
         IN  IF is_keyword(token) /\ Upper(token.value) \in { "FROM", "JOIN" }
             THEN ExtractRaises(Tail(toks), TRUE)
             ELSE IF from_or_join_seen
             THEN \/ /\ token.cls = "IdentifierList"
                     /\ \E i \in 1..Len(token.tokens) : token.tokens[i].cls = "Token"
                  \/ ExtractRaises(Tail(toks),
                                   ~(is_keyword(token)
                                     /\ Upper(token.value) \notin { "AS", "ON", "," }))
             ELSE ExtractRaises(Tail(toks), FALSE)

\* list(set(l)): each element of l once, in an order the language does not
\* fix; the set of the lists the expression may give
ListOfSet(l) ==
    LET S == { l[i] : i \in 1..Len(l) }
    IN  { r \in [1..Cardinality(S) -> S] : { r[i] : i \in 1..Cardinality(S) } = S }

\* SQLValidator._extract_tables(parsed): the lists that
\* list(set(tables_found)) of line 183 may return
_extract_tables(parsed) == ListOfSet(ExtractRun(Group(parsed), FALSE, << >>))

\* the pair appended to columns_found for an Identifier, lines 219-226: the
\* text is split at its first dot when it has one
ColumnOf(tok) ==
    LET parts == DotSplit(tok.value)
    IN  IF Len(parts) = 2
        THEN << Unquote(parts[2]), PyStr(Unquote(parts[1])) >>
        ELSE << get_real_name(tok), PyNone >>

RECURSIVE ColumnsRun(_, _, _)
\* ColumnsRun that reads the tokens after FROM too
ColumnsRun_PastFrom(toks, select_seen, columns_found) ==
    IF toks = << >> THEN columns_found
    ELSE LET token == Head(toks)
             items == SelectSeq(token.tokens, LAMBDA t : t.cls = "Identifier")
         IN  IF is_keyword(token) /\ Upper(token.value) = "SELECT"
             THEN ColumnsRun(Tail(toks), TRUE, columns_found)
             ELSE IF ~select_seen
             THEN ColumnsRun(Tail(toks), select_seen, columns_found)
             ELSE IF token.cls = "Identifier"
             THEN ColumnsRun(Tail(toks), TRUE, Append(columns_found, ColumnOf(token)))
             ELSE IF token.cls = "IdentifierList"
             THEN ColumnsRun(Tail(toks), TRUE,
                             columns_found \o [i \in 1..Len(items) |-> ColumnOf(items[i])])
             ELSE IF token.ttype = "Wildcard"
             THEN ColumnsRun(Tail(toks), TRUE, Append(columns_found, << "*", PyNone >>))
             ELSE ColumnsRun(Tail(toks), TRUE, columns_found)

\* the token walk of _extract_columns, lines 200-242: it ends at the FROM
\* keyword; after SELECT an Identifier, the Identifier elements of an
\* IdentifierList and a wildcard are appended
ColumnsRun(toks, select_seen, columns_found) ==
    IF toks = << >> THEN columns_found
    ELSE LET token == Head(toks)
             items == SelectSeq(token.tokens, LAMBDA t : t.cls = "Identifier")
         IN  IF is_keyword(token) /\ Upper(token.value) = "SELECT"
             THEN ColumnsRun(Tail(toks), TRUE, columns_found)
             ELSE IF is_keyword(token) /\ Upper(token.value) = "FROM"
             THEN columns_found
             ELSE IF ~select_seen
             THEN ColumnsRun(Tail(toks), select_seen, columns_found)
             ELSE IF token.cls = "Identifier"
             THEN ColumnsRun(Tail(toks), TRUE, Append(columns_found, ColumnOf(token)))
             ELSE IF token.cls = "IdentifierList"
             THEN ColumnsRun(Tail(toks), TRUE,
                             columns_found \o [i \in 1..Len(items) |-> ColumnOf(items[i])])
             ELSE IF token.ttype = "Wildcard"
             THEN ColumnsRun(Tail(toks), TRUE, Append(columns_found, << "*", PyNone >>))
             ELSE ColumnsRun(Tail(toks), TRUE, columns_found)

\* SQLValidator._extract_columns(parsed), lines 185-244
_extract_columns(parsed) ==
    IF get_type(parsed) # "SELECT" THEN << >>
    ELSE ColumnsRun(Group(parsed), FALSE, << >>)

-----------------------------------------------------------------------------
(* The backend (sqlite3): what its parser answers to a statement *)

\* a backend error text is the sequence of its pieces
MsgNoSuchTable(t) == << "no such table: ", t >>
MsgNear(x) == << "near ", x, ": syntax error" >>
MsgIncomplete == << "incomplete input" >>
MsgOneStatement == << "You can only execute one statement at a time." >>
MsgNotADatabase == << "file is not a database" >>
ProbeOk == << "ok" >>

NonWs(ts) == SelectSeq(ts, LAMBDA x : TType(x) # "Whitespace")

RECURSIVE ExprEnd(_, _)
\* the position after the expression that starts at ts[i]; 0 when the text
\* ends inside it; -k when ts[k] cannot continue it
ExprEnd(ts, i) ==
    IF i > Len(ts) THEN 0
    ELSE IF TType(ts[i]) \in { "String", "Number" } THEN i + 1
    ELSE IF ts[i] = "("
         THEN LET r == ExprEnd(ts, i + 1)
              IN  IF r <= 0 THEN r
                  ELSE IF r > Len(ts) THEN 0
                  ELSE IF ts[r] = ")" THEN r + 1
                  ELSE -r
    ELSE -i

\* the name a double-quoted name stands for
Unquoted(t) ==
    CASE t = "\"Student\"" -> "Student"
      [] t = "\"Teacher\"" -> "Teacher"
      [] OTHER             -> t

\* the sqlite parser on SELECT <expr or *> FROM <name> [LIMIT 5] [;]
SqliteAnswer(ts, db) ==
    IF ts = << >> THEN MsgIncomplete
    ELSE IF ts[1] # "SELECT" THEN MsgNear(ts[1])
    ELSE LET e == IF Len(ts) >= 2 /\ ts[2] = "*" THEN 3 ELSE ExprEnd(ts, 2)
         IN  IF e = 0 THEN MsgIncomplete
             ELSE IF e < 0 THEN MsgNear(ts[-e])
             ELSE IF e > Len(ts) THEN MsgIncomplete
             ELSE IF ts[e] # "FROM" THEN MsgNear(ts[e])
             ELSE IF e + 1 > Len(ts) THEN MsgIncomplete
             ELSE IF TType(ts[e + 1]) # "Name" THEN MsgNear(ts[e + 1])
             ELSE IF SubSeq(ts, e + 2, Len(ts)) = << "LIMIT", "5" >>
                  THEN IF Unquoted(ts[e + 1]) \notin db \cup { "sqlite_master" }
                       THEN MsgNoSuchTable(Unquoted(ts[e + 1]))
                       ELSE ProbeOk
             ELSE IF e + 2 <= Len(ts) /\ ts[e + 2] = ","
                  THEN IF e + 3 > Len(ts) THEN MsgIncomplete
                       ELSE IF TType(ts[e + 3]) # "Name" THEN MsgNear(ts[e + 3])
                       ELSE MsgNear(IF e + 4 <= Len(ts) THEN ts[e + 4] ELSE ts[e + 3])
             ELSE IF e + 2 <= Len(ts) /\ ts[e + 2] # ";" THEN MsgNear(ts[e + 2])
             ELSE IF e + 3 <= Len(ts) THEN MsgOneStatement
             ELSE IF Unquoted(ts[e + 1]) \notin db \cup { "sqlite_master" }
                  THEN MsgNoSuchTable(Unquoted(ts[e + 1]))
             ELSE ProbeOk


-----------------------------------------------------------------------------
(* The backend (sqlite3): the data of the database file, and what the      *)
(* commands of one connection do to it.  A table's rows are the values of  *)
(* its key column Sno or Tno                                               *)

MsgUnique(t) == << "UNIQUE constraint failed: ", t >>

\* the rows every user table holds when it is created
FirstRows == { "5" }

\* the key column of a table
KeyColumn(t) == IF t \in UserTables THEN Head(DbColumns(t)) ELSE "Sno"

\* the four statements that write (INSERT and UPDATE write the key column),
\* with the table each names; none when the text is not one of them
WriteKind(ts) ==
    LET n == Len(ts) - (IF ts # << >> /\ ts[Len(ts)] = ";" THEN 1 ELSE 0)
        b == SubSeq(ts, 1, n)
    IN  IF n = 3 /\ b[1] = "DELETE" /\ b[2] = "FROM" /\ TType(b[3]) = "Name"
        THEN << "DELETE", b[3] >>
        ELSE IF n = 3 /\ b[1] = "DROP" /\ b[2] = "TABLE" /\ TType(b[3]) = "Name"
        THEN << "DROP", b[3] >>
        ELSE IF n = 10 /\ b[1] = "INSERT" /\ b[2] = "INTO" /\ TType(b[3]) = "Name"
                /\ SubSeq(b, 4, 10) = << "(", KeyColumn(b[3]), ")", "VALUES", "(", "1", ")" >>
        THEN << "INSERT", b[3] >>
        ELSE IF n = 6 /\ b[1] = "UPDATE" /\ TType(b[2]) = "Name"
                /\ SubSeq(b, 3, 6) = << "SET", KeyColumn(b[2]), "=", "1" >>
        THEN << "UPDATE", b[2] >>
        ELSE << "none", "" >>

\* the tokens sqlite reads in a text: no blanks, keywords in either case
SqliteTokens(q) == [i \in 1..Len(NonWs(q)) |-> KeywordOf(NonWs(q)[i])]

\* sqlite3_prepare on the tokens of a text: the writing statements name a
\* table that must exist; every other text is read as a SELECT
PrepareAnswer(ts, db) ==
    LET w == WriteKind(ts)
    IN  IF w[1] = "none" THEN SqliteAnswer(ts, db)
        ELSE IF w[2] \notin db THEN MsgNoSuchTable(w[2])
        ELSE ProbeOk

\* cursor.execute("EXPLAIN " + statement) on a healthy database file: the
\* statement is prepared and its program listed
Explain(stmt, db) == PrepareAnswer(SqliteTokens(stmt), db)

\* cursor.execute(statement): a text that holds no statement is accepted;
\* a statement is prepared and, unlike under EXPLAIN, run; the key column takes every value once
ExecuteAnswer(ts, db, rows) ==
    LET w == WriteKind(ts)
        p == PrepareAnswer(ts, db)
    IN  IF ts = << >> THEN ProbeOk
        ELSE IF p # ProbeOk THEN p
        ELSE IF w[1] = "INSERT" /\ "1" \in rows[w[2]] THEN MsgUnique(w[2])
        ELSE IF w[1] = "UPDATE" /\ Cardinality(rows[w[2]]) > 1 THEN MsgUnique(w[2])
        ELSE ProbeOk

\* one command sent over a connection, with the backend's answer
Cmd(kind, text, answer) == [kind |-> kind, text |-> text, answer |-> answer]

\* the file and the open transaction of a connection: tables and rows as
\* committed, rows as the connection sees them
FileState(db, rows, seen) == [db |-> db, rows |-> rows, seen |-> seen]

\* what one command does.  EXPLAIN, the listing and PRAGMA table_info only
\* read.  An executed INSERT, UPDATE or DELETE opens a transaction (the
\* module's implicit BEGIN) and writes inside it; no BEGIN is issued for a
\* DROP, which is written to the file as it runs; commit makes the
\* transaction's rows the file's rows
CmdEffect(st, cmd) ==
    LET w == WriteKind(SqliteTokens(cmd.text))
        t == w[2]
    IN  IF cmd.kind = "commit" THEN FileState(st.db, st.seen, st.seen)
        ELSE IF cmd.kind # "execute" \/ cmd.answer # ProbeOk \/ w[1] = "none" THEN st
        ELSE IF w[1] = "DROP"
             THEN FileState(st.db \ { t }, [st.seen EXCEPT ![t] = {}],
                            [st.seen EXCEPT ![t] = {}])
        ELSE IF w[1] = "DELETE"
             THEN FileState(st.db, st.rows, [st.seen EXCEPT ![t] = {}])
        ELSE IF w[1] = "INSERT"
             THEN FileState(st.db, st.rows, [st.seen EXCEPT ![t] = @ \cup { "1" }])
        ELSE FileState(st.db, st.rows,
                       [st.seen EXCEPT ![t] = IF @ = {} THEN {} ELSE { "1" }])

RECURSIVE RunCmds(_, _)
RunCmds(st, cmds) ==
    IF cmds = << >> THEN st ELSE RunCmds(CmdEffect(st, Head(cmds)), Tail(cmds))

\* the file after a connection sent cmds and was closed: what was not
\* committed is rolled back
AfterConnection(db, rows, cmds) ==
    LET st == RunCmds(FileState(db, rows, rows), cmds)
    IN  << st.db, st.rows >>

-----------------------------------------------------------------------------
(* The fuzzy suggestion engine.  A string is the sequence of its characters *)

RECURSIVE InnerLoop(_, _, _, _, _)

\* InnerLoop without the substitution candidate of line 269
InnerLoop_NoSubstitution(c1, b, j, previous_row, current_row) ==
    IF j > Len(b) THEN current_row
    ELSE LET insertions == previous_row[j + 1] + 1
             deletions  == current_row[j] + 1
         IN  InnerLoop(c1, b, j + 1, previous_row,
                       Append(current_row, Min2(insertions, deletions)))

\* InnerLoop with a substitution that costs one also for equal characters
InnerLoop_SubstitutionAlwaysCosts(c1, b, j, previous_row, current_row) ==
    IF j > Len(b) THEN current_row
    ELSE LET insertions    == previous_row[j + 1] + 1
             deletions     == current_row[j] + 1
             substitutions == previous_row[j] + 1
         IN  InnerLoop(c1, b, j + 1, previous_row,
                       Append(current_row, Min3(insertions, deletions, substitutions)))

\* the loop over j of _levenshtein_distance: extends current_row by one
\* entry for each character of s2; current_row is a value at the start of
\* every turn, and is never empty
InnerLoop(c1, b, j, previous_row, current_row) ==
    IF j > Len(b) \/ current_row = << >> THEN current_row
    ELSE LET insertions    == previous_row[j + 1] + 1
             deletions     == current_row[j] + 1
             substitutions == previous_row[j] + (IF c1 # b[j] THEN 1 ELSE 0)
         IN  InnerLoop(c1, b, j + 1, previous_row,
                       Append(current_row, Min3(insertions, deletions, substitutions)))

RECURSIVE OuterLoop(_, _, _, _)
\* the loop over i of _levenshtein_distance: current_row starts as [i + 1]
\* (i counted from 0 in the code, from 1 here); previous_row is a value at
\* the start of every turn, and is never the empty row
OuterLoop(a, b, i, previous_row) ==
    IF i > Len(a) \/ previous_row = << >> THEN previous_row
    ELSE OuterLoop(a, b, i + 1, InnerLoop(a[i], b, 1, previous_row, << i >>))

\* the body of _levenshtein_distance once len(s1) >= len(s2)
LevRows(a, b) ==
    IF Len(b) = 0 THEN Len(a)
    ELSE LET last == OuterLoop(a, b, 1, [k \in 1..(Len(b) + 1) |-> k - 1])
         IN  last[Len(last)]

\* SQLValidator._levenshtein_distance(s1, s2)
_levenshtein_distance(a, b) ==
    IF Len(a) < Len(b) THEN LevRows(b, a) ELSE LevRows(a, b)

\* the characters of the names the model uses, as they are spelt
Chars(n) ==
    CASE n = "Student"       -> << "S", "t", "u", "d", "e", "n", "t" >>
      [] n = "Studnet"       -> << "S", "t", "u", "d", "n", "e", "t" >>
      [] n = "STUDENT"       -> << "S", "T", "U", "D", "E", "N", "T" >>
      [] n = "Teacher"       -> << "T", "e", "a", "c", "h", "e", "r" >>
      [] n = "Class"         -> << "C", "l", "a", "s", "s" >>
      [] n = "Clubs"         -> << "C", "l", "u", "b", "s" >>
      [] n = "sqlite_master" -> << "s", "q", "l", "i", "t", "e", "_",
                                   "m", "a", "s", "t", "e", "r" >>
      [] n = "sqlite_sequence" -> << "s", "q", "l", "i", "t", "e", "_",
                                     "s", "e", "q", "u", "e", "n", "c", "e" >>
      [] n = "no such table: " ->
           << "n", "o", " ", "s", "u", "c", "h", " ", "t", "a", "b", "l", "e", ":", " " >>
      [] n = "NO SUCH TABLE: " ->
           << "N", "O", " ", "S", "U", "C", "H", " ", "T", "A", "B", "L", "E", ":", " " >>
      [] n = "no such column: " ->
           << "n", "o", " ", "s", "u", "c", "h", " ", "c", "o", "l", "u", "m", "n", ":", " " >>
      [] n = "near " ->
           << "n", "e", "a", "r", " " >>
      [] n = ": syntax error" ->
           << ":", " ", "s", "y", "n", "t", "a", "x", " ", "e", "r", "r", "o", "r" >>
      [] n = "incomplete input" ->
           << "i", "n", "c", "o", "m", "p", "l", "e", "t", "e", " ", "i", "n", "p", "u", "t" >>
      [] n = "ambiguous column name: " ->
           << "a", "m", "b", "i", "g", "u", "o", "u", "s", " ", "c", "o", "l", "u", "m", "n", " ", "n", "a", "m", "e", ":", " " >>
      [] n = "UNIQUE constraint failed: " ->
           << "U", "N", "I", "Q", "U", "E", " ", "c", "o", "n", "s", "t", "r", "a", "i", "n", "t", " ", "f", "a", "i", "l", "e", "d", ":", " " >>
      [] n = "file is not a database" ->
           << "f", "i", "l", "e", " ", "i", "s", " ", "n", "o", "t", " ", "a", " ", "d", "a", "t", "a", "b", "a", "s", "e" >>
      [] n = "You can only execute one statement at a time." ->
           << "Y", "o", "u", " ", "c", "a", "n", " ", "o", "n", "l", "y", " ", "e", "x", "e", "c", "u", "t", "e", " ", "o", "n", "e", " ", "s", "t", "a", "t", "e", "m", "e", "n", "t", " ", "a", "t", " ", "a", " ", "t", "i", "m", "e", "." >>
      [] n = "no such table" ->
           << "n", "o", " ", "s", "u", "c", "h", " ", "t", "a", "b", "l", "e" >>
      [] n = "no such column" ->
           << "n", "o", " ", "s", "u", "c", "h", " ", "c", "o", "l", "u", "m", "n" >>
      [] n = "syntax error" ->
           << "s", "y", "n", "t", "a", "x", " ", "e", "r", "r", "o", "r" >>
      [] n = "ambiguous" ->
           << "a", "m", "b", "i", "g", "u", "o", "u", "s" >>
      [] n = "constraint" ->
           << "c", "o", "n", "s", "t", "r", "a", "i", "n", "t" >>
      [] OTHER               -> << >>

\* str.lower on one character
LowerChar(c) ==
    CASE c = "A" -> "a" [] c = "B" -> "b" [] c = "C" -> "c" [] c = "D" -> "d"
      [] c = "E" -> "e" [] c = "F" -> "f" [] c = "G" -> "g" [] c = "H" -> "h"
      [] c = "I" -> "i" [] c = "J" -> "j" [] c = "K" -> "k" [] c = "L" -> "l"
      [] c = "M" -> "m" [] c = "N" -> "n" [] c = "O" -> "o" [] c = "P" -> "p"
      [] c = "Q" -> "q" [] c = "R" -> "r" [] c = "S" -> "s" [] c = "T" -> "t"
      [] c = "U" -> "u" [] c = "V" -> "v" [] c = "W" -> "w" [] c = "X" -> "x"
      [] c = "Y" -> "y" [] c = "Z" -> "z"
      [] OTHER -> c

\* name.lower(), as a sequence of characters
LowerChars(n) == [i \in 1..Len(Chars(n)) |-> LowerChar(Chars(n)[i])]

\* A Python float that is a ratio of two small integers is the pair
\* << numerator, denominator >> with a positive denominator
RatEq(p, q) == p[1] * q[2] = q[1] * p[2]
RatGeq(p, q) == p[1] * q[2] >= q[1] * p[2]

\* _calculate_similarity with the length of s1 in the place of max_len
_calculate_similarity_DividesByFirstLength(a, b) ==
    IF Len(a) = 0 \/ Len(b) = 0
    THEN << 0, 1 >>
    ELSE << Len(a) - _levenshtein_distance(a, b), Len(a) >>

\* SQLValidator._calculate_similarity(s1, s2), lines 254-258: 0.0 when either
\* string is empty, otherwise 1.0 - (distance / max_len)
_calculate_similarity(a, b) ==
    IF Len(a) = 0 \/ Len(b) = 0
    THEN << 0, 1 >>
    ELSE LET d       == _levenshtein_distance(a, b)
             max_len == Max2(Len(a), Len(b))
         IN  << max_len - d, max_len >>

\* the default of the parameter threshold of _find_similar_names: 0.6
DefaultThreshold == << 6, 10 >>

RECURSIVE FindRun(_, _, _, _)
\* the loop of _find_similar_names with > in the place of >=
FindRun_Strict(nm, rest, thr, similar) ==
    IF rest = << >> THEN similar
    ELSE LET n == Head(rest)
             sim == _calculate_similarity(LowerChars(nm), LowerChars(n))
         IN  FindRun(nm, Tail(rest), thr,
                     IF RatGeq(sim, thr) /\ ~RatEq(sim, thr)
                     THEN Append(similar, n) ELSE similar)

\* the loop of _find_similar_names, lines 248-251: n is appended, as it is
\* spelt, when the similarity of the two lower-cased names reaches threshold
FindRun(nm, rest, thr, similar) ==
    IF rest = << >> THEN similar
    ELSE LET n == Head(rest)
             sim == _calculate_similarity(LowerChars(nm), LowerChars(n))
         IN  FindRun(nm, Tail(rest), thr,
                     IF RatGeq(sim, thr) THEN Append(similar, n) ELSE similar)

\* SQLValidator._find_similar_names(name, name_list, threshold)
_find_similar_names(nm, names, thr) == FindRun(nm, names, thr, << >>)

\* the characters of one piece of a message; a piece that is not spelt out
\* (a name, a lexeme of the statement) counts as one character of its own
PieceChars(piece) == IF Chars(piece) = << >> THEN << piece >> ELSE Chars(piece)

RECURSIVE MsgChars(_)
\* the characters of a message, which the model keeps as a sequence of pieces
MsgChars(msg) ==
    IF msg = << >> THEN << >> ELSE PieceChars(Head(msg)) \o MsgChars(Tail(msg))

\* str.lower()
Lower(cs) == [i \in 1..Len(cs) |-> LowerChar(cs[i])]

\* sub in text, on sequences of characters
Contains(text, sub) ==
    \E i \in 0..(Len(text) - Len(sub)) : SubSeq(text, i + 1, i + Len(sub)) = sub

\* phrase in error_msg, without the lower()
Mentions_CaseSensitive(msg, phrase) == Contains(MsgChars(msg), Chars(phrase))

\* phrase in error_msg.lower()
Mentions(msg, phrase) == Contains(Lower(MsgChars(msg)), Chars(phrase))

\* SQLValidator._generate_suggestions_for_error(error_msg, tables, columns):
\* the texts are fixed per class of message; tables and columns are not read
_generate_suggestions_for_error(msg, tabs, cols) ==
    IF Mentions(msg, "no such table")
    THEN << "check the spelling of the table name", "make sure the table was created" >>
    ELSE IF Mentions(msg, "no such column")
    THEN << "check the spelling of the column name",
            "make sure the column is referenced in the right table" >>
    ELSE IF Mentions(msg, "syntax error")
    THEN << "check the SQL syntax", "make sure the keywords are spelt correctly",
            "check brackets, commas and other punctuation" >>
    ELSE IF Mentions(msg, "ambiguous")
    THEN << "qualify the column with its table, e.g. 'table.column'" >>
    ELSE IF Mentions(msg, "constraint")
    THEN << "check whether a table constraint is violated",
            "make sure inserted or updated data satisfies the constraints" >>
    ELSE << "check the SQL syntax", "make sure all referenced tables and columns exist",
            "check that the data types match" >>

-----------------------------------------------------------------------------
(* SQLValidator: values returned by validate *)

MsgConnFailed == << "database connection failed, cannot validate" >>
MsgEmpty == << "the SQL query must not be empty" >>
MsgSyntax == << "SQL syntax error" >>
MsgUnparsable == << "the SQL query cannot be parsed" >>
MsgSingleOnly == << "only a single SQL statement may be validated" >>

\* a Valid outcome that carries an empty list of suggestions
Valid_WithSuggestionList == << TRUE, PyNone, PyList(<< >>) >>

\* return True, None, None
Valid == << TRUE, PyNone, PyNone >>
\* return False, message, suggestions
Invalid(message, suggestions) == << FALSE, PyStr(message), PyList(suggestions) >>

Returned(v) == [exc |-> "None", ret |-> v]
Raised(e) == [exc |-> e, ret |-> PyNone]
NoResult == [exc |-> "None", ret |-> PyNone]

\* SQLValidator._check_basic_syntax(sql_query): the counts of the two
\* parenthesis characters agree, and the first parsed statement exists
\* (IndexError is caught) and has tokens
_check_basic_syntax(q) ==
    /\ Count(q, "(") = Count(q, ")")
    /\ Parse(q) # << >>
    /\ Parse(q)[1] # << >>

\* ParseOutcome letting two statements through (> 2 for > 1)
ParseOutcome_AllowsTwo(parsed_statements) ==
    IF parsed_statements = << >>
    THEN Invalid(MsgUnparsable, << "please check the format of the query" >>)
    ELSE IF Len(parsed_statements) > 2
    THEN Invalid(MsgSingleOnly,
                 << "split the query into separate statements and validate each" >>)
    ELSE << "go on" >>

\* validate, lines 96-102: what the number of parsed statements decides
\* ("go on" when there is exactly one)
ParseOutcome(parsed_statements) ==
    IF parsed_statements = << >>
    THEN Invalid(MsgUnparsable, << "please check the format of the query" >>)
    ELSE IF Len(parsed_statements) > 1
    THEN Invalid(MsgSingleOnly,
                 << "split the query into separate statements and validate each" >>)
    ELSE << "go on" >>

\* ProbeOutcome rejecting a statement whose tables are not all in the catalog
ProbeOutcome_RejectsUnknownTables(answer, tabs, invalid) ==
    IF answer = ProbeOk /\ invalid = {}
    THEN Valid
    ELSE Invalid(answer, _generate_suggestions_for_error(answer, tabs, << >>))

\* validate, lines 110-120: the value returned after the EXPLAIN probe
ProbeOutcome(answer, tabs, invalid) ==
    IF answer = ProbeOk
    THEN Valid
    ELSE Invalid(answer, _generate_suggestions_for_error(answer, tabs, << >>))

-----------------------------------------------------------------------------
(* The schema catalog as _load_schema builds it *)

\* rows of SELECT name FROM sqlite_master WHERE type='table'
MasterRows(db) == SelectSeq(TableOrder, LAMBDA t : t \in db \cup SystemTables)

\* name LIKE 'sqlite_%': the pattern is matched without regard to case, and
\* its _ stands for any one character
LikeSqlite(n) ==
    LET c == LowerChars(n)
    IN  Len(c) >= 7 /\ SubSeq(c, 1, 6) = << "s", "q", "l", "i", "t", "e" >>

\* the listing without its NOT LIKE condition
Listing_WithSystemTables(db) == MasterRows(db)

\* rows of SELECT name FROM sqlite_master WHERE type='table' AND name NOT LIKE 'sqlite_%'
Listing(db) == SelectSeq(MasterRows(db), LAMBDA t : ~LikeSqlite(t))

Range(f) == { f[i] : i \in DOMAIN f }

\* self.tables after the loop of lines 50-63 read the columns of the first k
\* tables of the listing and, when started, entered table k + 1 without
\* getting its columns
TablesAfter(list, k, started) ==
    [ t \in { list[i] : i \in 1..k } \cup (IF started THEN { list[k + 1] } ELSE {})
        |-> IF \E i \in 1..k : list[i] = t THEN DbColumns(t) ELSE << >> ]

\* self.columns after the same part of the loop
ColumnsAfter(list, k) ==
    [ c \in UNION { Range(DbColumns(list[i])) : i \in 1..k }
        |-> SelectSeq(SubSeq(list, 1, k), LAMBDA t : c \in Range(DbColumns(t))) ]

-----------------------------------------------------------------------------
(* State after construction *)

NoCall ==
    /\ sql_query = << >>
    /\ loaded = FALSE
    /\ checked = {}
    /\ connFailed = {}
    /\ tables_in_query = {}
    /\ invalid_tables = {}
    /\ probe = << >>
    /\ result = NoResult

\* no text is being worked through by execute_sql_statements
SessionIdle ==
    /\ session_text = PyNone
    /\ statements = << >>
    /\ validated = << >>

\* the rows of a file whose tables are as they were created
RowsOf(db) == [t \in UserTables |-> IF t \in db THEN FirstRows ELSE {}]

ValidatorInit ==
    /\ sent = << >>
    /\ exec_result = PyNone
    /\ conn = "None"
    /\ tables = [t \in {} |-> << >>]
    /\ columns = [c \in {} |-> << >>]
    /\ vconn = "None"
    /\ exec_query = PyNone
    /\ pc = "idle"
    /\ NoCall
    /\ SessionIdle

\* no call of _generate_suggestions_for_error is under way
SuggestIdle ==
    /\ error_msg = << >>
    /\ passed = << << >>, << >> >>
    /\ returned_suggestions = PyNone

\* no call of the edit distance or of the similarity is under way
LevIdle ==
    /\ s1 = << >>
    /\ s2 = << >>
    /\ distance = -1
    /\ similarity = PyNone

\* no call of _find_similar_names is under way
FuzzyIdle ==
    /\ name = ""
    /\ name_list = << >>
    /\ threshold = DefaultThreshold
    /\ similar_names = PyNone

\* no call of an extractor or of the fallback plan builder is under way
ExtractIdle ==
    /\ statement = << >>
    /\ found_tables = PyNone
    /\ found_columns = PyNone
    /\ manual_plan = PyNone

Init ==
    /\ dbTables \in SUBSET UserTables
    /\ dbRows = RowsOf(dbTables)
    /\ ValidatorInit
    /\ LevIdle
    /\ FuzzyIdle
    /\ ExtractIdle
    /\ SuggestIdle

-----------------------------------------------------------------------------
(* SQLValidator.validate, one action per stage *)

\* the shell hands a text to validate (lines 73-77 format and print it)
CallValidate ==
    /\ pc = "idle"
    /\ \E q \in Queries : sql_query' = q
    /\ pc' = "v_connect79"
    /\ UNCHANGED << dbTables, dbRows, sent, exec_result, conn, tables, columns, loaded, checked, connFailed,
                    tables_in_query, invalid_tables, probe, result, vconn, exec_query, pureVars >>

\* lines 79-80 and 85-86: _connect_db, and the early return when it fails
ValidateConnect(at, line, next) ==
    /\ pc = at
    /\ \E ok \in BOOLEAN :
         IF ok
         THEN /\ conn' = "open"
              /\ pc' = next
              /\ UNCHANGED << connFailed, result >>
         ELSE /\ conn' = "None"
              /\ connFailed' = connFailed \cup { line }
              /\ result' = Returned(Invalid(MsgConnFailed, << >>))
              /\ pc' = "done"
    /\ UNCHANGED << dbTables, dbRows, sent, exec_result, tables, columns, sql_query, loaded,
                    checked, tables_in_query, invalid_tables, probe, vconn, exec_query, pureVars >>

ValidateConnect79 == ValidateConnect("v_connect79", 79, "v_load")

ValidateConnect85 == ValidateConnect("v_connect85", 85, "v_empty")

\* _load_schema, lines 44 and 54: the listing, then PRAGMA table_info for
\* the tables of the listing up to the one (failAt) whose PRAGMA fails;
\* failAt = 0 when the listing itself fails
SchemaCommands(list, failAt) ==
    IF failAt = 0
    THEN << Cmd("listing", << >>, MsgNotADatabase) >>
    ELSE << Cmd("listing", << >>, ProbeOk) >>
         \o [k \in 1..Min2(failAt, Len(list))
                |-> Cmd("PRAGMA table_info", << list[k] >>,
                        IF k = failAt THEN MsgNotADatabase ELSE ProbeOk)]

\* line 82: self._load_schema(), whose return value validate does not read.
\* The connect of line 40 may fail; the listing of line 44 may fail (before
\* the maps are cleared); the PRAGMA of line 54 may fail for any table of
\* the listing (after the maps were cleared and partly refilled).
ValidateLoadSchema ==
    /\ pc = "v_load"
    /\ \E ok \in BOOLEAN :
         IF ~ok
         THEN /\ connFailed' = connFailed \cup { 40 }
              /\ loaded' = FALSE
              /\ UNCHANGED << catalogVars, dbTables, dbRows, sent >>
         ELSE LET list == Listing(dbTables)
              IN  \E failAt \in 0..(Len(list) + 1) :
                    /\ connFailed' = connFailed
                    /\ loaded' = (failAt = Len(list) + 1)
                    /\ LET cmds  == SchemaCommands(list, failAt)
                           after == AfterConnection(dbTables, dbRows, cmds)
                       IN  /\ sent' = sent \o cmds
                           /\ dbTables' = after[1]
                           /\ dbRows' = after[2]
                    /\ IF failAt = 0
                       THEN UNCHANGED catalogVars
                       ELSE IF failAt = Len(list) + 1
                       THEN /\ tables' = TablesAfter(list, Len(list), FALSE)
                            /\ columns' = ColumnsAfter(list, Len(list))
                       ELSE /\ tables' = TablesAfter(list, failAt - 1, TRUE)
                            /\ columns' = ColumnsAfter(list, failAt - 1)
    /\ conn' = "None"
    /\ pc' = "v_connect85"
    /\ UNCHANGED << exec_result, sql_query, checked, tables_in_query, invalid_tables,
                    probe, result, vconn, exec_query, pureVars >>

\* lines 88-90
ValidateEmpty ==
    /\ pc = "v_empty"
    /\ IF StripIsEmpty(sql_query)
       THEN /\ conn' = "None"
            /\ result' = Returned(Invalid(MsgEmpty, << "please enter a valid SQL query" >>))
            /\ pc' = "done"
       ELSE /\ pc' = "v_syntax"
            /\ UNCHANGED << conn, result >>
    /\ UNCHANGED << dbTables, dbRows, sent, exec_result, tables, columns, sql_query, loaded,
                    checked, connFailed, tables_in_query, invalid_tables, probe, vconn,
                    exec_query, pureVars >>

\* lines 92-94
ValidateSyntax ==
    /\ pc = "v_syntax"
    /\ checked' = checked \cup { "syntax" }
    /\ IF ~_check_basic_syntax(sql_query)
       THEN /\ conn' = "None"
            /\ result' = Returned(Invalid(MsgSyntax,
                            << "check that the SQL syntax is correct",
                               "make sure the keywords are spelt correctly",
                               "check that the brackets match" >>))
            /\ pc' = "done"
       ELSE /\ pc' = "v_parse"
            /\ UNCHANGED << conn, result >>
    /\ UNCHANGED << dbTables, dbRows, sent, exec_result, tables, columns, sql_query, loaded,
                    connFailed, tables_in_query, invalid_tables, probe, vconn, exec_query,
                    pureVars >>

\* lines 96-102
ValidateParse ==
    /\ pc = "v_parse"
    /\ checked' = checked \cup { "parse" }
    /\ LET out == ParseOutcome(Parse(sql_query))
       IN  IF out # << "go on" >>
           THEN /\ conn' = "None"
                /\ result' = Returned(out)
                /\ pc' = "done"
           ELSE /\ pc' = "v_probe"
                /\ UNCHANGED << conn, result >>
    /\ UNCHANGED << dbTables, dbRows, sent, exec_result, tables, columns, sql_query, loaded,
                    connFailed, tables_in_query, invalid_tables, probe, vconn, exec_query,
                    pureVars >>

\* a command that runs the statement itself
ProbeCommand_Executes(stmt, answer) == Cmd("execute", stmt, answer)

\* line 111: what validate sends for the one parsed statement
ProbeCommand(stmt, answer) == Cmd("EXPLAIN", stmt, answer)

\* lines 104-120: reference extraction, invalid_tables, and the EXPLAIN of
\* the one parsed statement; the backend answers for the statement, or
\* fails for a reason of its own. The extraction of lines 107-108 stands
\* outside the try: when it raises, the exception leaves validate with the
\* connection of line 85 still open
ValidateProbe ==
    /\ pc = "v_probe"
    /\ LET parsed  == Parse(sql_query)[1]
           tabs    == UNION { { l[i] : i \in 1..Len(l) } : l \in _extract_tables(parsed) }
           invalid == { tb \in tabs : tb \notin DOMAIN tables }
       IN  IF ExtractRaises(Group(parsed), FALSE)
           THEN /\ result' = Raised("AttributeError")
                /\ checked' = checked \cup { "extract" }
                /\ pc' = "raised"
                /\ UNCHANGED << conn, tables_in_query, invalid_tables, probe,
                                dbTables, dbRows, sent >>
           ELSE /\ \E answer \in { Explain(parsed, dbTables), MsgNotADatabase } :
                     /\ tables_in_query' = tabs
                     /\ invalid_tables' = invalid
                     /\ probe' = answer
                     /\ result' = Returned(ProbeOutcome(answer, tabs, invalid))
                     /\ LET cmds  == << ProbeCommand(parsed, answer) >>
                            after == AfterConnection(dbTables, dbRows, cmds)
                        IN  /\ sent' = sent \o cmds
                            /\ dbTables' = after[1]
                            /\ dbRows' = after[2]
                /\ checked' = checked \cup { "extract", "probe" }
                /\ conn' = "None"
                /\ pc' = "done"
    /\ UNCHANGED << exec_result, tables, columns, sql_query, loaded, connFailed,
                    vconn, exec_query, pureVars >>

\* the caller takes the returned value; the locals of the call are gone.
\* Inside execute_sql_statements a Valid outcome is first followed by
\* execute_and_visualize (main.py, lines 105-106)
Return ==
    /\ pc \in { "done", "raised", "plan_done", "exec_done" }
    /\ (session_text # PyNone /\ pc = "done") => result.ret[1] = FALSE
    /\ pc' = "idle"
    /\ exec_query' = PyNone
    /\ sql_query' = << >>
    /\ loaded' = FALSE
    /\ checked' = {}
    /\ connFailed' = {}
    /\ tables_in_query' = {}
    /\ invalid_tables' = {}
    /\ probe' = << >>
    /\ result' = NoResult
    /\ sent' = << >>
    /\ exec_result' = PyNone
    /\ UNCHANGED << dbTables, dbRows, conn, tables, columns, vconn, pureVars >>

\* between two calls the database file changes: a table is created or dropped
BackendChange ==
    /\ pc = "idle"
    /\ \E t \in UserTables :
         /\ dbTables' = IF t \in dbTables THEN dbTables \ { t } ELSE dbTables \cup { t }
         /\ dbRows' = [dbRows EXCEPT ![t] = IF t \in dbTables THEN {} ELSE FirstRows]
    /\ UNCHANGED << sent, exec_result, conn, tables, columns, pc, callVars, result, vconn, exec_query, pureVars >>

-----------------------------------------------------------------------------
(* QueryVisualizer: the plan builder *)

PlanNode(id, parent, operation) == [id |-> id, parent |-> parent, operation |-> operation]

RECURSIVE ManualRun(_, _, _)
\* the token walk of _parse_sql_manually, lines 136-147: a token whose type
\* is Keyword itself (DML is another type) is read as SELECT or FROM; an
\* Identifier met once FROM was seen gives a SCAN TABLE node with parent 0
ManualRun(toks, from_seen, plan) ==
    IF toks = << >> THEN plan
    ELSE LET token == Head(toks)
             kw    == token.ttype = "Keyword"
             plan1 == IF kw /\ Upper(token.value) = "SELECT"
                      THEN Append(plan, PlanNode(Len(plan), -1, << "SELECT" >>))
                      ELSE plan
             seen1 == from_seen \/ (kw /\ Upper(token.value) = "FROM")
             plan2 == IF seen1 /\ token.cls = "Identifier"
                      THEN Append(plan1, PlanNode(Len(plan1), 0,
                                                  << "SCAN TABLE " >> \o Text(token)))
                      ELSE plan1
         IN  ManualRun(Tail(toks), seen1, plan2)

\* QueryVisualizer._parse_sql_manually(sql_query): sqlparse.parse(...)[0]
\* raises IndexError when the text holds no statement
_parse_sql_manually(q) ==
    IF Parse(q) = << >>
    THEN Raised("IndexError")
    ELSE LET plan == ManualRun(Group(Parse(q)[1]), FALSE, << >>)
         IN  Returned(IF plan = << >>
                      THEN << PlanNode(0, -1, << "QUERY ROOT" >>),
                              PlanNode(1, 0, << "EXECUTE SQL" >>) >>
                      ELSE plan)

\* rows of EXPLAIN QUERY PLAN for SELECT ... FROM <table>, as plan nodes
BackendPlan(q) ==
    LET ts == NonWs(q)
    IN  << PlanNode(2, 0, << "SCAN ", ts[Len(ts) - (IF ts[Len(ts)] = ";" THEN 1 ELSE 0)] >>) >>

\* QueryVisualizer._generate_query_plan(sql_query), lines 109-126
GenerateQueryPlan ==
    /\ pc = "idle"
    /\ \E q \in Queries, ok \in BOOLEAN :
         /\ sql_query' = q
         /\ IF vconn = "None" /\ ~ok
            THEN /\ vconn' = "None"
                 /\ result' = _parse_sql_manually(q)
            ELSE /\ vconn' = "open"
                 /\ \E answer \in { SqliteAnswer(NonWs(q), dbTables), MsgNotADatabase } :
                      result' = IF answer = ProbeOk
                                THEN Returned(BackendPlan(q))
                                ELSE _parse_sql_manually(q)
    /\ pc' = "plan_done"
    /\ UNCHANGED << dbTables, dbRows, sent, exec_result, conn, tables, columns, loaded, checked, connFailed,
                    tables_in_query, invalid_tables, probe, exec_query, pureVars >>

-----------------------------------------------------------------------------
(* The interactive shell (src/main.py): the three places that hand a text  *)
(* to QueryVisualizer.execute_and_visualize, which connects, executes and  *)
(* closes its connection before it returns                                 *)

\* f'"{table_name}"' on the names the model uses
Quoted(t) ==
    CASE t = "Student" -> "\"Student\""
      [] t = "Teacher" -> "\"Teacher\""
      [] OTHER         -> t

\* the table names typed after the word preview
PreviewNames == { "Student", "Teacher" }

\* the texts the natural-language bridge returns as interpreted_sql
InterpretedSql ==
    (Fragments \ { << >> })
    \cup { << "select", "*", "from", "Student" >>,
           << " ", "SELECT", "*", "FROM", "Student" >> }

\* sql_query.strip().startswith('SELECT'), without the upper()
StartsWithSelect_CaseSensitive(q) == Strip(q) # << >> /\ Strip(q)[1] = "SELECT"

\* line 78: sql_query.strip().upper().startswith('SELECT')
StartsWithSelect(q) == Strip(q) # << >> /\ Upper(Strip(q)[1]) = "SELECT"

\* the values of the key column as fetchall lists them
RowList(rows) == SelectSeq(<< "1", "5" >>, LAMBDA v : v \in rows)

\* lines 85 and 88: results and column_names of a SELECT * that ran
Fetched(ts, db, rows) ==
    LET t == Unquoted(ts[4])
    IN  IF Len(ts) >= 4 /\ ts[2] = "*" /\ t \in db
        THEN << PyList(RowList(rows[t])), PyList(DbColumns(t)) >>
        ELSE << PyList(<< >>), PyList(<< >>) >>

\* QueryVisualizer.execute_and_visualize(sql_query), lines 63-107: connect
\* (or return at once); execute; for a text that does not start with
\* SELECT commit, close and return; for a SELECT fetch, close and return;
\* on an error of the backend close and return
ExecuteAndVisualize(q) ==
    /\ exec_query' = PyStr(q)
    /\ \E ok \in BOOLEAN :
         IF ~ok
         THEN /\ exec_result' = << FALSE, PyNone, PyNone >>
              /\ UNCHANGED << dbTables, dbRows, sent >>
         ELSE LET ts == SqliteTokens(q)
              IN  \E answer \in { ExecuteAnswer(ts, dbTables, dbRows), MsgNotADatabase } :
                    LET cmds  == << Cmd("execute", q, answer) >>
                                 \o (IF answer = ProbeOk /\ ~StartsWithSelect(q)
                                     THEN << Cmd("commit", << >>, ProbeOk) >>
                                     ELSE << >>)
                        after == AfterConnection(dbTables, dbRows, cmds)
                    IN  /\ sent' = sent \o cmds
                        /\ dbTables' = after[1]
                        /\ dbRows' = after[2]
                        /\ exec_result' =
                             IF answer # ProbeOk THEN << FALSE, PyNone, PyNone >>
                             ELSE IF ~StartsWithSelect(q) THEN << TRUE, PyNone, PyNone >>
                             ELSE << TRUE >> \o Fetched(ts, dbTables, dbRows)
    /\ vconn' = "None"
    /\ pc' = "exec_done"

\* execute_sql_statements, lines 105-106: the statement validate has just
\* found valid is handed to execute_and_visualize
ExecuteValidated ==
    /\ pc = "done"
    /\ result.exc = "None"
    /\ result.ret[1] = TRUE
    /\ ExecuteAndVisualize(sql_query)
    /\ UNCHANGED << conn, tables, columns, callVars, result, pureVars >>

\* interactive_mode, lines 202-209: preview <table> [rows]
ShellPreview ==
    /\ pc = "idle"
    /\ statements = << >>
    /\ \E t \in PreviewNames :
         ExecuteAndVisualize(<< "SELECT", "*", "FROM", Quoted(t), "LIMIT", "5" >>)
    /\ UNCHANGED << conn, tables, columns, callVars, result, pureVars >>

\* interactive_mode, lines 246-250: the SQL the natural-language bridge
\* produced, once the user answered y
ShellNaturalLanguage ==
    /\ pc = "idle"
    /\ statements = << >>
    /\ \E q \in InterpretedSql : ExecuteAndVisualize(q)
    /\ UNCHANGED << conn, tables, columns, callVars, result, pureVars >>

-----------------------------------------------------------------------------
(* The specification of the validator and the plan builder *)

Next ==
    \/ CallValidate
    \/ ValidateConnect79
    \/ ValidateLoadSchema
    \/ ValidateConnect85
    \/ ValidateEmpty
    \/ ValidateSyntax
    \/ ValidateParse
    \/ ValidateProbe
    \/ GenerateQueryPlan
    \/ ExecuteValidated
    \/ ShellPreview
    \/ ShellNaturalLanguage
    \/ Return
    \/ BackendChange

Spec == Init /\ [][Next]_vars

-----------------------------------------------------------------------------
(* The specification of the edit distance: every pair of strings over a    *)
(* two-letter alphabet, up to MaxStrLen characters each                    *)

Alphabet == { "a", "b" }

Strings == UNION { [1..n -> Alphabet] : n \in 0..MaxStrLen }

\* the variables of the validator, the plan builder and the shell
shellVars == << dbTables, dbRows, sent, exec_result, conn, tables, columns, pc, callVars,
               result, vconn, exec_query, sessionVars >>

LevInit ==
    /\ dbTables = UserTables
    /\ dbRows = RowsOf(dbTables)
    /\ ValidatorInit
    /\ s1 \in Strings
    /\ s2 \in Strings
    /\ distance = -1
    /\ similarity = PyNone
    /\ FuzzyIdle
    /\ ExtractIdle
    /\ SuggestIdle

CallLevenshtein ==
    /\ distance = -1
    /\ distance' = _levenshtein_distance(s1, s2)
    /\ UNCHANGED << shellVars, s1, s2, similarity, fuzzyVars, extractVars,
                    suggestVars >>

CallSimilarity ==
    /\ similarity = PyNone
    /\ similarity' = _calculate_similarity(s1, s2)
    /\ UNCHANGED << shellVars, s1, s2, distance, fuzzyVars, extractVars,
                    suggestVars >>

LevNext ==
    \/ CallLevenshtein
    \/ CallSimilarity

LevSpec == LevInit /\ [][LevNext]_vars

-----------------------------------------------------------------------------
(* The specification of _find_similar_names: every name of FuzzyNames      *)
(* against every list of up to MaxPool different names                     *)

FuzzyNames == { "Student", "Studnet", "STUDENT", "Teacher", "Class", "Clubs", "" }

Thresholds == { DefaultThreshold, << 1, 1 >> }

\* the lists of n different names
RECURSIVE PoolsOf(_)
PoolsOf(n) ==
    IF n = 0 THEN { << >> }
    ELSE { Append(l, x) : l \in PoolsOf(n - 1), x \in FuzzyNames } \cap
         { l \in Seq(FuzzyNames) : \A i, j \in 1..Len(l) : l[i] = l[j] => i = j }

Pools == UNION { PoolsOf(n) : n \in 0..MaxPool }

FuzzyInit ==
    /\ dbTables = UserTables
    /\ dbRows = RowsOf(dbTables)
    /\ ValidatorInit
    /\ LevIdle
    /\ ExtractIdle
    /\ SuggestIdle
    /\ name \in FuzzyNames
    /\ name_list \in Pools
    /\ threshold \in Thresholds
    /\ similar_names = PyNone

CallFindSimilarNames ==
    /\ similar_names = PyNone
    /\ similar_names' = PyList(_find_similar_names(name, name_list, threshold))
    /\ UNCHANGED << shellVars, levVars, name, name_list, threshold, extractVars,
                    suggestVars >>

FuzzyNext == CallFindSimilarNames

FuzzySpec == FuzzyInit /\ [][FuzzyNext]_vars

-----------------------------------------------------------------------------
(* The specification of the extractors and of the fallback plan builder:   *)
(* each is applied to every statement of Statements                        *)

\* what stands between SELECT and FROM
SelectLists ==
    { << "*" >>, << "Sname" >>, << "Sname", ",", "Sage" >>, << "Student.Sname" >>,
      << "\"Sname\"", ",", "1" >>, << "1" >> }

\* join conditions: a comparison, a comparison in parentheses, two
\* comparisons joined by AND, a membership test, a column alone
OnConds ==
    { << "Student.Sno", "=", "Teacher.Tno" >>,
      << "(", "Student.Sno", "=", "Teacher.Tno", ")" >>,
      << "Student.Sno", "=", "Teacher.Tno", "AND", "Teacher.Tno", ">", "1" >>,
      << "Teacher.Tno", "IN", "(", "1", ")" >>,
      << "flag" >> }

JoinClause(c) == << "FROM", "Student", "JOIN", "Teacher", "ON" >> \o c

\* a sub-query in the FROM clause and one in the WHERE clause
SubqueryFrom == << "FROM", "(", "SELECT", "*", "FROM", "Teacher", ")" >>

SubqueryWhere == << "WHERE", "Sage", "IN", "(", "SELECT", "Sage", "FROM", "Teacher", ")" >>

\* tables under aliases: a self-join, a join with AS, a list
SelfJoin ==
    << "FROM", "Student", "a", "JOIN", "Student", "b", "ON", "a.Sno", "=", "b.Sno" >>

AsJoin ==
    << "FROM", "Student", "AS", "a", "JOIN", "Teacher", "AS", "b",
       "ON", "a.Sno", "=", "b.Sno" >>

AliasList == << "FROM", "Student", "a", ",", "Student", "b" >>

\* a sub-query in the FROM clause under an alias
DerivedTable == << "FROM", "(", "SELECT", "*", "FROM", "Teacher", ")", "s" >>

\* a comma list whose second element is a number
NumberInList == << "FROM", "Student", ",", "1" >>

FromClauses ==
    { << "FROM", "Student" >>, << "FROM", "Student", ",", "Teacher" >>,
      SubqueryFrom, SelfJoin, AsJoin, AliasList, DerivedTable, NumberInList }
    \cup { JoinClause(c) : c \in OnConds }

\* what follows the FROM clause
Tails ==
    { << >>, << "WHERE", "Sage", ">", "18" >>, << "ORDER BY", "Sname" >>,
      << "GROUP BY", "Sname" >>, SubqueryWhere }

Statements ==
    { << "SELECT" >> \o l \o f \o t : l \in SelectLists, f \in FromClauses, t \in Tails }
    \cup { << "DELETE", "FROM", "Student" >>,
           << "DELETE", "FROM", "Student", "WHERE", "Sage", ">", "18" >>,
           << "SELECT", "1" >>, << " " >>, << >> }

ExtractInit ==
    /\ dbTables = UserTables
    /\ dbRows = RowsOf(dbTables)
    /\ ValidatorInit
    /\ LevIdle
    /\ FuzzyIdle
    /\ SuggestIdle
    /\ statement \in Statements
    /\ found_tables = PyNone
    /\ found_columns = PyNone
    /\ manual_plan = PyNone

\* self._extract_tables(parsed) on the one statement of the text
CallExtractTables ==
    /\ found_tables = PyNone
    /\ Parse(statement) # << >>
    /\ IF ExtractRaises(Group(Parse(statement)[1]), FALSE)
       THEN found_tables' = PyRaise("AttributeError")
       ELSE \E l \in _extract_tables(Parse(statement)[1]) : found_tables' = PyList(l)
    /\ UNCHANGED << shellVars, levVars, fuzzyVars, statement, found_columns, manual_plan,
                    suggestVars >>

\* self._extract_columns(parsed) on the one statement of the text
CallExtractColumns ==
    /\ found_columns = PyNone
    /\ Parse(statement) # << >>
    /\ found_columns' = PyList(_extract_columns(Parse(statement)[1]))
    /\ UNCHANGED << shellVars, levVars, fuzzyVars, statement, found_tables, manual_plan,
                    suggestVars >>

\* self._parse_sql_manually(sql_query) on the text
CallParseSqlManually ==
    /\ manual_plan = PyNone
    /\ manual_plan' = << "outcome", _parse_sql_manually(statement) >>
    /\ UNCHANGED << shellVars, levVars, fuzzyVars, statement, found_tables, found_columns,
                    suggestVars >>

ExtractNext ==
    \/ CallExtractTables
    \/ CallExtractColumns
    \/ CallParseSqlManually

ExtractSpec == ExtractInit /\ [][ExtractNext]_vars

-----------------------------------------------------------------------------
(* The specification of the suggestion texts: every message of at most     *)
(* MaxPieces pieces, with several lists of tables and columns              *)

\* pieces of backend messages, in both cases, and two names
MessagePieces ==
    { "no such table: ", "NO SUCH TABLE: ", "no such column: ", "near ",
      ": syntax error", "ambiguous column name: ", "UNIQUE constraint failed: ",
      "incomplete input", "Student", "Sname" }

Messages == UNION { [1..n -> MessagePieces] : n \in 0..MaxPieces }

\* the pairs << tables, columns >> handed over with the message
PassedLists ==
    { << << >>, << >> >>, << << "Student" >>, << >> >>,
      << << "Student", "Teacher" >>, << "Sname" >> >> }

SuggestInit ==
    /\ dbTables = UserTables
    /\ dbRows = RowsOf(dbTables)
    /\ ValidatorInit
    /\ LevIdle
    /\ FuzzyIdle
    /\ ExtractIdle
    /\ error_msg \in Messages
    /\ passed \in PassedLists
    /\ returned_suggestions = PyNone

CallGenerateSuggestions ==
    /\ returned_suggestions = PyNone
    /\ returned_suggestions' =
         PyList(_generate_suggestions_for_error(error_msg, passed[1], passed[2]))
    /\ UNCHANGED << shellVars, levVars, fuzzyVars, extractVars, error_msg, passed >>

SuggestNext == CallGenerateSuggestions

SuggestSpec == SuggestInit /\ [][SuggestNext]_vars

-----------------------------------------------------------------------------
(* The specification of a session: one text typed as SQL is split and its  *)
(* statements are validated and executed in turn (execute_sql_statements); *)
(* before and after it tables are previewed and interpreted SQL is run     *)

\* the statements of the texts: a SELECT, the four statements that write, a
\* SELECT of a table that does not exist (Invalid) and one on which the
\* reference extraction raises
SessionFragments ==
    { << "SELECT", "*", "FROM", "Student" >>,
      << "DELETE", "FROM", "Student" >>,
      << "DROP", "TABLE", "Student" >>,
      << "INSERT", "INTO", "Student", "(", "Sno", ")", "VALUES", "(", "1", ")" >>,
      << "UPDATE", "Student", "SET", "Sno", "=", "1" >>,
      << "SELECT", "*", "FROM", "Studnet" >>,
      << "SELECT", "*", "FROM", "Student", ",", "1" >> }

RECURSIVE SessionTextsOf(_)
\* the texts of at most n statements, joined by ';' and a blank
SessionTextsOf(n) ==
    IF n <= 1 THEN SessionFragments
    ELSE SessionTextsOf(n - 1)
         \cup { q \o << ";", " " >> \o f : q \in SessionTextsOf(n - 1), f \in SessionFragments }

SessionTexts == SessionTextsOf(MaxStmts)

\* sqlparse.split(sql_query): the text of every statement, stripped
Split(q) == [i \in 1..Len(Parse(q)) |-> Strip(Parse(q)[i])]

SessionInit ==
    /\ dbTables = UserTables
    /\ dbRows = RowsOf(dbTables)
    /\ ValidatorInit
    /\ LevIdle
    /\ FuzzyIdle
    /\ ExtractIdle
    /\ SuggestIdle

\* interactive_mode, lines 212-214, and execute_sql_statements, line 100:
\* the text typed as SQL is split
ShellSql ==
    /\ pc = "idle"
    /\ session_text = PyNone
    /\ \E q \in SessionTexts :
         /\ session_text' = PyStr(q)
         /\ statements' = Split(q)
    /\ validated' = << >>
    /\ UNCHANGED << dbTables, dbRows, sent, exec_result, conn, tables, columns, pc, callVars,
                    result, vconn, exec_query, levVars, fuzzyVars, extractVars, suggestVars >>

\* a for loop that ends after its first round
RestOf_LoopEnds(stmts) == << >>

\* line 101: the for loop goes on with the statements after this one
RestOf(stmts) == Tail(stmts)

\* execute_sql_statements, lines 101-105: the next statement is stripped;
\* an empty one is passed over, any other is handed to validate
LoopStep ==
    /\ pc = "idle"
    /\ statements # << >>
    /\ statements' = RestOf(statements)
    /\ LET stmt == Strip(Head(statements))
       IN  IF stmt = << >>
           THEN UNCHANGED << validated, sql_query, pc >>
           ELSE /\ validated' = Append(validated, stmt)
                /\ sql_query' = stmt
                /\ pc' = "v_connect79"
    /\ UNCHANGED << dbTables, dbRows, sent, exec_result, conn, tables, columns, loaded, checked,
                    connFailed, tables_in_query, invalid_tables, probe, result, vconn,
                    exec_query, session_text, levVars, fuzzyVars, extractVars, suggestVars >>

SessionNext ==
    \/ ShellSql
    \/ LoopStep
    \/ ValidateConnect79
    \/ ValidateLoadSchema
    \/ ValidateConnect85
    \/ ValidateEmpty
    \/ ValidateSyntax
    \/ ValidateParse
    \/ ValidateProbe
    \/ ExecuteValidated
    \/ ShellPreview
    \/ ShellNaturalLanguage
    \/ Return

SessionSpec == SessionInit /\ [][SessionNext]_vars

-----------------------------------------------------------------------------
(* Properties of validate and of the plan builder, checked under Spec *)

\* validate has returned and its caller has not yet taken the value
ValidateDone == pc = "done"

\* the connects of validate itself (lines 79 and 85) both succeeded
Connected == connFailed \cap { 79, 85 } = {}

\* the backend was reachable and healthy all through the call: every connect
\* succeeded, the schema was loaded, the probe (if any) answered for the
\* statement
Healthy == connFailed = {} /\ loaded /\ probe # MsgNotADatabase

\* no string literal of the text holds a parenthesis
NoParenInLiteral(q) == \A i \in 1..Len(q) : q[i] # "'('"

\* every statement of the text is a SELECT statement
AllSelects(q) ==
    \A i \in 1..Len(Parse(q)) :
        NonWs(Parse(q)[i]) # << >> /\ NonWs(Parse(q)[i])[1] = "SELECT"

RECURSIVE Nests(_, _)
\* the parentheses of the text (outside string literals) nest: none closes
\* before it was opened and none stays open
Nests(q, depth) ==
    IF q = << >> THEN depth = 0
    ELSE IF Head(q) = "(" THEN Nests(Tail(q), depth + 1)
    ELSE IF Head(q) = ")" THEN depth > 0 /\ Nests(Tail(q), depth - 1)
    ELSE Nests(Tail(q), depth)

\* the text is one SELECT statement
SingleSelect(q) ==
    /\ Len(Parse(q)) = 1
    /\ NonWs(q) # << >>
    /\ NonWs(q)[1] = "SELECT"

\* C1: a single SELECT statement with balanced parentheses that references
\* only tables of the backend schema and that the backend's EXPLAIN accepts
\* is returned Valid by validate, also when a string literal of the
\* statement holds a parenthesis (the backend being reachable and healthy).
C1_ValidSelectIsValid ==
    ( /\ ValidateDone
      /\ Healthy
      /\ SingleSelect(sql_query)
      /\ Nests(sql_query, 0)
      /\ \A l \in _extract_tables(Parse(sql_query)[1]) :
           \A i \in 1..Len(l) : l[i] \in dbTables
      /\ Explain(Parse(sql_query)[1], dbTables) = ProbeOk )
    => result.ret = Valid

\* C2 as stated: an input of two or more non-empty statements is returned
\* Invalid with the single-statement-only message whatever the statements
\* are (also with unbalanced parentheses), and nothing of it is probed
\* (stated for a healthy backend and for SELECT statements whose literals
\* hold no parenthesis).
C2_MultiAlwaysSingleOnlyMessage ==
    ( /\ ValidateDone
      /\ Healthy
      /\ Len(Parse(sql_query)) >= 2
      /\ AllSelects(sql_query)
      /\ NoParenInLiteral(sql_query) )
    => /\ result.ret[1] = FALSE
       /\ result.ret[2] = PyStr(MsgSingleOnly)
       /\ checked \cap { "extract", "probe" } = {}

\* C2 as amended: an input of two or more non-empty statements is returned
\* Invalid and nothing of it is extracted or probed; with the backend
\* connected, the message is the single-statement-only message when the
\* input holds as many '(' as ')' characters, and the syntax-error message
\* of the basic syntax check, which runs first, when it does not.
C2_MultiIsInvalidUnprobed ==
    ( /\ ValidateDone
      /\ Len(Parse(sql_query)) >= 2 )
    => /\ result.ret[1] = FALSE
       /\ checked \cap { "extract", "probe" } = {}
       /\ Connected =>
            result.ret[2] = IF Count(sql_query, "(") = Count(sql_query, ")")
                            THEN PyStr(MsgSingleOnly)
                            ELSE PyStr(MsgSyntax)

\* witness of C2: two statements, the first one the backend would reject,
\* returned with the single-statement-only message
C2_Witness ==
    /\ ValidateDone
    /\ Len(Parse(sql_query)) = 2
    /\ AllSelects(sql_query)
    /\ Explain(Parse(sql_query)[1], dbTables) # ProbeOk
    /\ result.ret[2] = PyStr(MsgSingleOnly)

\* C3: an empty or whitespace-only input is returned Invalid with the
\* empty-query message and an empty sequence of suggestions, whatever the
\* state of the backend (stated here for a backend that can be connected).
C3_EmptyQueryNoSuggestions ==
    ( /\ ValidateDone
      /\ Connected
      /\ StripIsEmpty(sql_query) )
    => result.ret = Invalid(MsgEmpty, << >>)

C5_NothingEscapes ==
    pc \in { "done", "raised", "plan_done" } => result.exc = "None"

\* C6: an outcome of validate is either (True, None, None) or False with a
\* message and a sequence of suggestions, never a mix of the two.
C6_OutcomeIsOneVariant ==
    ValidateDone =>
        \/ /\ result.ret[1] = TRUE
           /\ result.ret[2] = PyNone
           /\ result.ret[3] = PyNone
        \/ /\ result.ret[1] = FALSE
           /\ result.ret[2][1] = "str"
           /\ result.ret[3][1] = "list"

\* witness of C6: both shapes occur; here the Invalid one with no suggestion
C6_Witness ==
    /\ ValidateDone
    /\ result.ret[1] = FALSE
    /\ result.ret[3] = PyList(<< >>)

\* C7: when a backend connection cannot be established for the schema
\* refresh, validate returns Invalid with the connection-failed message
\* and runs no syntax check, no reference extraction and no probe.
C7_NoConnectionNoChecks ==
    ( /\ ValidateDone
      /\ connFailed # {} )
    => /\ result.ret = Invalid(MsgConnFailed, << >>)
       /\ checked = {}

\* C8: when the backend rejects a statement that references a table missing
\* from the catalog, every catalog table whose name is similar enough
\* (0.6) to a missing one is among the suggestions.
C8_SuggestionsHoldSimilarNames ==
    ( /\ ValidateDone
      /\ Healthy
      /\ "probe" \in checked
      /\ probe # ProbeOk
      /\ invalid_tables # {} )
    => \A u \in invalid_tables :
         \A n \in Range(_find_similar_names(u, Listing(DOMAIN tables), DefaultThreshold)) :
           \E i \in 1..Len(result.ret[3][2]) : result.ret[3][2][i] = n

\* C21: validate returns Invalid with the syntax-error message and the
\* generic suggestions for every text whose parentheses are not balanced,
\* also when their numbers agree but they do not nest, as in ')('; a text
\* with balanced parentheses and at least one token passes the syntax check.
C21_UnbalancedIsSyntaxError ==
    (ValidateDone /\ Connected /\ ~StripIsEmpty(sql_query)) =>
        /\ ~Nests(sql_query, 0)
           => result = Returned(Invalid(MsgSyntax,
                           << "check that the SQL syntax is correct",
                              "make sure the keywords are spelt correctly",
                              "check that the brackets match" >>))
        /\ (Nests(sql_query, 0) /\ NoParenInLiteral(sql_query))
           => "parse" \in checked

\* C17: a text is handed to execute_and_visualize only after validate has
\* returned Valid for that same text, on every path of the shell that
\* executes SQL (direct SQL, preview, natural-language bridge).
C17_ExecutedOnlyAfterValid ==
    exec_query # PyNone =>
        /\ "probe" \in checked
        /\ result = Returned(Valid)
        /\ exec_query = PyStr(sql_query)

\* C18: when _load_schema fails - at the connect, at the table listing or
\* at the columns of some table - tables and columns hold what they held
\* before the call.
C18_FailedLoadKeepsCatalog ==
    [][(pc = "v_load" /\ ~loaded') => (tables' = tables /\ columns' = columns)]_vars

\* the name starts with the prefix sqlite_
StartsWithSqlite(n) ==
    /\ Len(Chars(n)) >= 7
    /\ SubSeq(Chars(n), 1, 7) = << "s", "q", "l", "i", "t", "e", "_" >>

\* C19: after every sequence of _load_schema calls, failed or not, every
\* key of columns is a column of at least one table of tables and is listed
\* under exactly the tables whose column sequence holds it, and no key of
\* tables starts with sqlite_.
C19_CatalogMapsAgree ==
    /\ \A c \in DOMAIN columns :
         /\ \E t \in DOMAIN tables : c \in Range(tables[t])
         /\ Range(columns[c]) = { t \in DOMAIN tables : c \in Range(tables[t]) }
         /\ \A i, j \in 1..Len(columns[c]) : columns[c][i] = columns[c][j] => i = j
    /\ \A t \in DOMAIN tables : ~StartsWithSqlite(t)

\* witness of C19: a load that failed at the columns of the second table
\* left both tables as keys, the second without columns, and the columns of
\* the first
C19_Witness ==
    /\ pc = "v_connect85"
    /\ ~loaded
    /\ DOMAIN tables = { "Student", "Teacher" }
    /\ tables["Teacher"] = << >>
    /\ DOMAIN columns = { "Sno", "Sname" }

\* C20: whenever validate goes on to reference extraction and the probe,
\* tables and columns were read from the backend during that same call.
C20_CatalogReadInSameCall ==
    (ValidateDone /\ "extract" \in checked) =>
        /\ loaded
        /\ tables = TablesAfter(Listing(dbTables), Len(Listing(dbTables)), FALSE)
        /\ columns = ColumnsAfter(Listing(dbTables), Len(Listing(dbTables)))

-----------------------------------------------------------------------------
(* Properties of the edit distance, checked under LevSpec *)

\* the strings one insertion, one deletion or one substitution away from s
OneEdit(s) ==
    { SubSeq(s, 1, i) \o << c >> \o SubSeq(s, i + 1, Len(s)) :
          i \in 0..Len(s), c \in Alphabet }
    \cup { SubSeq(s, 1, i - 1) \o SubSeq(s, i + 1, Len(s)) : i \in 1..Len(s) }
    \cup { [s EXCEPT ![i] = c] : i \in 1..Len(s), c \in Alphabet }

RECURSIVE Within(_, _)
\* the strings at most k single-character edits away from s
Within(s, k) ==
    IF k = 0 THEN { s }
    ELSE LET W == Within(s, k - 1)
         IN  W \cup UNION { OneEdit(x) : x \in W }

\* the least number of single-character edits that turn a into b
MinEdits(a, b) ==
    CHOOSE k \in 0..(Len(a) + Len(b)) :
        /\ b \in Within(a, k)
        /\ k > 0 => b \notin Within(a, k - 1)

\* C9: _levenshtein_distance(a, b) is the least number of single-character
\* insertions, deletions and substitutions that turn a into b, for all
\* strings, empty ones and ones of different lengths included.
C9_DistanceIsMinimumEdits ==
    distance # -1 => distance = MinEdits(s1, s2)

\* witness of C9: a computed distance of two between non-empty strings of
\* different lengths
C9_Witness ==
    /\ distance = 2
    /\ Len(s1) > 0
    /\ Len(s1) < Len(s2)

\* C10: _levenshtein_distance(a, b) = _levenshtein_distance(b, a), and
\* _levenshtein_distance(a, a) = 0.
C10_SymmetricAndZeroOnEqual ==
    distance # -1 =>
        /\ distance = _levenshtein_distance(s2, s1)
        /\ s1 = s2 => distance = 0

\* witness of C10: a computed distance between two different strings of the
\* same length, and so without the swap of line 261
C10_Witness ==
    /\ distance > 0
    /\ Len(s1) = Len(s2)
    /\ Len(s1) = MaxStrLen

-----------------------------------------------------------------------------
(* Properties of the similarity, checked under LevSpec *)

\* C11: _calculate_similarity(s, s) = 1.0 for every non-empty s; the value
\* is 0.0 whenever either argument is empty; for all other arguments it is
\* 1 - distance / max(len) and lies in the interval [0, 1].
C11_SimilarityValue ==
    similarity # PyNone =>
        /\ similarity[2] > 0
        /\ (s1 = s2 /\ s1 # << >>) => RatEq(similarity, << 1, 1 >>)
        /\ (s1 = << >> \/ s2 = << >>) => RatEq(similarity, << 0, 1 >>)
        /\ (s1 # << >> /\ s2 # << >>) =>
             LET m == Max2(Len(s1), Len(s2))
             IN  /\ RatEq(similarity, << m - _levenshtein_distance(s1, s2), m >>)
                 /\ RatGeq(similarity, << 0, 1 >>)
                 /\ RatGeq(<< 1, 1 >>, similarity)

\* witness of C11: a computed similarity strictly between 0 and 1, of two
\* non-empty strings of different lengths, the first one the shorter
C11_Witness ==
    /\ similarity # PyNone
    /\ s1 # << >>
    /\ Len(s1) < Len(s2)
    /\ similarity[1] > 0
    /\ similarity[1] < similarity[2]

-----------------------------------------------------------------------------
(* Properties of _find_similar_names, checked under FuzzySpec *)

\* C12: _find_similar_names(name, pool, threshold) returns exactly the
\* elements of pool whose similarity to name, both in lower case, is greater
\* than or equal to threshold (0.6 by default, boundary included), in the
\* order of pool and as they are spelt in pool; for name Studnet and a pool
\* holding Student the result contains Student.
C12_ExactlyTheSimilarNames ==
    similar_names # PyNone =>
        LET r == similar_names[2]
        IN  /\ \A n \in Range(name_list) :
                 n \in Range(r) <=>
                   RatGeq(_calculate_similarity(LowerChars(name), LowerChars(n)), threshold)
            /\ r = SelectSeq(name_list, LAMBDA n : n \in Range(r))
            /\ \A n \in Range(name_list) :
                 (LowerChars(n) = LowerChars(name) /\ Chars(n) # << >>) => n \in Range(r)
            /\ ( /\ name = "Class"
                 /\ threshold = DefaultThreshold
                 /\ "Clubs" \in Range(name_list) )
               => "Clubs" \in Range(r)
            /\ ( /\ name = "Studnet"
                 /\ threshold = DefaultThreshold
                 /\ "Student" \in Range(name_list) )
               => "Student" \in Range(r)

\* witness of C12: for Studnet and the pool Teacher, Student the result is
\* the list holding Student alone
C12_Witness ==
    /\ name = "Studnet"
    /\ name_list = << "Teacher", "Student" >>
    /\ threshold = DefaultThreshold
    /\ similar_names = PyList(<< "Student" >>)

-----------------------------------------------------------------------------
(* Properties of the extractors and of the fallback plan builder, checked  *)
(* under ExtractSpec                                                       *)

\* the statements SELECT ... FROM Student JOIN Teacher ON c
JoinStatements(conds) ==
    { << "SELECT" >> \o l \o JoinClause(c) : l \in SelectLists, c \in conds }

\* the join condition of a statement of JoinStatements
JoinCondition(st) == CHOOSE c \in OnConds : st \in JoinStatements({ c })

\* C13 (as claimed): for SELECT ... FROM A JOIN B ON <condition>,
\* _extract_tables returns exactly {A, B}; no identifier of the ON condition
\* is recorded.
C13_JoinGivesBothTablesOnly ==
    (found_tables # PyNone /\ statement \in JoinStatements(OnConds))
    => Range(found_tables[2]) = { "Student", "Teacher" }

\* C13 (amended): for SELECT ... FROM A JOIN B ON <condition>,
\* _extract_tables returns {A, B} when the condition starts with a token the
\* tokenizer grouped (a comparison, a parenthesis); when the condition starts
\* with an identifier that is a token of its own, the real name of that
\* identifier is returned too.
C13_JoinGivesBothTablesAndLeadingIdentifier ==
    (found_tables # PyNone /\ statement \in JoinStatements(OnConds))
    => LET first == Group(JoinCondition(statement))[1]
       IN  Range(found_tables[2]) =
             { "Student", "Teacher" }
             \cup (IF first.cls = "Identifier" THEN { get_real_name(first) } ELSE {})

\* witness of C13: the join on the comparison Student.Sno = Teacher.Tno
\* gave the two tables
C13_Witness ==
    /\ statement = << "SELECT", "*" >> \o JoinClause(<< "Student.Sno", "=", "Teacher.Tno" >>)
    /\ found_tables = PyList(<< "Student", "Teacher" >>)

\* the pairs the lexemes of a select list stand for: a name is a column
\* (split at its first dot), a wildcard alone is the column *
RECURSIVE ColumnsOfList(_)
ColumnsOfList(l) ==
    IF l = << >> THEN << >>
    ELSE LET x     == Head(l)
             parts == DotSplit(x)
         IN  (IF TType(x) = "Name"
              THEN << IF Len(parts) = 2
                      THEN << Unquote(parts[2]), PyStr(Unquote(parts[1])) >>
                      ELSE << Unquote(x), PyNone >> >>
              ELSE IF TType(x) = "Wildcard" /\ Len(l) = 1
              THEN << << "*", PyNone >> >>
              ELSE << >>)
             \o ColumnsOfList(Tail(l))

ExampleSelect == << "SELECT", "Sname", "FROM", "Student", "WHERE", "Sage", ">", "18" >>

\* C14: _extract_columns records only the identifiers, identifier-list
\* elements and wildcards between the SELECT keyword and the first top-level
\* FROM keyword, each as (column, qualifier) with a dotted name split at its
\* first dot, and returns nothing for a statement that is not a SELECT; for
\* SELECT Sname FROM Student WHERE Sage > 18 the columns are {(Sname, none)}
\* and the tables are {Student}.
C14_ColumnsOfTheSelectList ==
    /\ found_columns # PyNone =>
         /\ statement[1] # "SELECT" => found_columns = PyList(<< >>)
         /\ \A l \in SelectLists, f \in FromClauses, t \in Tails :
              statement = << "SELECT" >> \o l \o f \o t
              => found_columns = PyList(ColumnsOfList(l))
         /\ statement = ExampleSelect
            => found_columns = PyList(<< << "Sname", PyNone >> >>)
    /\ (found_tables # PyNone /\ statement = ExampleSelect)
       => found_tables = PyList(<< "Student" >>)

\* witness of C14: both extractors ran on the example statement
C14_Witness ==
    /\ statement = ExampleSelect
    /\ found_columns = PyList(<< << "Sname", PyNone >> >>)
    /\ found_tables = PyList(<< "Student" >>)

\* the plan _parse_sql_manually gives when its token walk emits no node
DefaultPlan ==
    << PlanNode(0, -1, << "QUERY ROOT" >>), PlanNode(1, 0, << "EXECUTE SQL" >>) >>

\* C15: _parse_sql_manually returns a non-empty plan for every text, the
\* empty text and texts without SELECT or FROM included; when the token walk
\* emits no node the plan is QUERY ROOT followed by its child EXECUTE SQL.
C15_FallbackPlanNeverEmpty ==
    manual_plan # PyNone =>
        /\ manual_plan[2].exc = "None"
        /\ Len(manual_plan[2].ret) >= 1
        /\ ManualRun(Group(Parse(statement)[1]), FALSE, << >>) = << >>
           => manual_plan[2].ret = DefaultPlan

\* C16: in every plan _parse_sql_manually returns, node ids are unique and
\* every node whose parent is not -1 has a parent that is the id of a node
\* strictly earlier in the plan.
C16_FallbackPlanIsForest ==
    (manual_plan # PyNone /\ manual_plan[2].exc = "None") =>
        LET plan == manual_plan[2].ret
        IN  /\ \A i, j \in 1..Len(plan) : plan[i].id = plan[j].id => i = j
            /\ \A i \in 1..Len(plan) :
                 plan[i].parent # -1
                 => \E j \in 1..(i - 1) : plan[j].id = plan[i].parent

\* the statements SELECT ... f t over every select list
WithClauses(f, t) == { << "SELECT" >> \o l \o f \o t : l \in SelectLists }

\* C22: _extract_tables includes the tables of sub-queries: for a statement
\* whose FROM clause or WHERE clause holds a parenthesised sub-query
\* SELECT ... FROM T the result holds T, together with the tables of the
\* outer statement.
C22_SubqueryTablesIncluded ==
    found_tables[1] = "list" =>
        /\ \A t \in Tails :
             statement \in WithClauses(SubqueryFrom, t)
             => "Teacher" \in Range(found_tables[2])
        /\ statement \in WithClauses(<< "FROM", "Student" >>, SubqueryWhere)
           => Range(found_tables[2]) = { "Student", "Teacher" }

\* the token sets the expectation of a table reference
SetsExpectation(t) == is_keyword(t) /\ t.value \in { "FROM", "JOIN" }

\* the token ends the expectation: a keyword other than AS, ON or a comma
ClearsExpectation(t) ==
    is_keyword(t) /\ t.value \notin { "FROM", "JOIN", "AS", "ON", "," }

\* a table reference is expected at token i of toks: a FROM or JOIN stands
\* before it and no clearing token stands between the two
ExpectedAt(toks, i) ==
    \E j \in 1..(i - 1) :
        /\ SetsExpectation(toks[j])
        /\ \A k \in (j + 1)..(i - 1) : ~ClearsExpectation(toks[k])

\* the names a token stands for: an identifier its real name, an identifier
\* list the real names of its elements
NamesOf(t) ==
    IF t.cls = "Identifier" THEN { get_real_name(t) }
    ELSE IF t.cls = "IdentifierList"
    THEN { get_real_name(t.tokens[i]) : i \in 1..Len(t.tokens) }
    ELSE {}

\* C23: in the grouped token walk of _extract_tables, every identifier and
\* every element of an identifier list met while a table reference is
\* expected (after FROM or JOIN) is recorded; the expectation is cleared by a
\* keyword other than AS, ON or a comma and by nothing else; identifiers met
\* while no reference is expected (after ORDER BY, GROUP BY) are not
\* recorded.
C23_RecordedWhileExpected ==
    found_tables # PyNone =>
        /\ found_tables[1] = "list"
        /\ LET toks == Group(Parse(statement)[1])
           IN  Range(found_tables[2]) =
                 UNION { NamesOf(toks[i]) :
                           i \in { k \in 1..Len(toks) : ExpectedAt(toks, k) } }

\* C24: the result of _extract_tables holds each table name at most once,
\* and holds the names of the tables, never their aliases: a self-join of
\* one table under two aliases gives that table once.
C24_EachTableOnceNoAlias ==
    found_tables[1] = "list" =>
        LET r == found_tables[2]
        IN  /\ \A i, j \in 1..Len(r) : r[i] = r[j] => i = j
            /\ Range(r) \cap { "a", "b", "s" } = {}
            /\ \A t \in Tails :
                 /\ statement \in WithClauses(SelfJoin, t) => r = << "Student" >>
                 /\ statement \in WithClauses(AliasList, t) => r = << "Student" >>
                 /\ statement \in WithClauses(AsJoin, t)
                    => Range(r) = { "Student", "Teacher" }

\* the texts after SCAN TABLE in the nodes of a plan
ScanTexts(plan) ==
    { SubSeq(plan[i].operation, 2, Len(plan[i].operation)) :
        i \in { k \in 1..Len(plan) : plan[k].operation[1] = "SCAN TABLE " } }

\* C25: the fallback plan has one SELECT root when the text holds a SELECT
\* keyword and exactly one SCAN TABLE child of that root per table reference
\* the reference extractor finds: the table names of its SCAN TABLE nodes
\* are the set _extract_tables returns for the same statement.
C25_PlanScansTheExtractedTables ==
    (manual_plan # PyNone /\ found_tables[1] = "list" /\ manual_plan[2].exc = "None") =>
        LET plan == manual_plan[2].ret
        IN  /\ ScanTexts(plan) = { << n >> : n \in Range(found_tables[2]) }
            /\ statement[1] = "SELECT" =>
                 /\ plan[1] = PlanNode(0, -1, << "SELECT" >>)
                 /\ \A i \in 2..Len(plan) :
                      /\ plan[i].operation[1] = "SCAN TABLE "
                      /\ plan[i].parent = 0

\* the phrases of the classes of messages, in the order they are tried
ClassPhrases ==
    << "no such table", "no such column", "syntax error", "ambiguous", "constraint" >>

\* the suggestions of each class, and the generic ones
ClassSuggestions ==
    << << "check the spelling of the table name", "make sure the table was created" >>,
       << "check the spelling of the column name",
          "make sure the column is referenced in the right table" >>,
       << "check the SQL syntax", "make sure the keywords are spelt correctly",
          "check brackets, commas and other punctuation" >>,
       << "qualify the column with its table, e.g. 'table.column'" >>,
       << "check whether a table constraint is violated",
          "make sure inserted or updated data satisfies the constraints" >> >>

GenericSuggestions ==
    << "check the SQL syntax", "make sure all referenced tables and columns exist",
       "check that the data types match" >>

\* the classes whose phrase the message holds, whatever the case of its
\* letters
ClassesOf(msg) ==
    { k \in 1..Len(ClassPhrases) : Contains(Lower(MsgChars(msg)), Chars(ClassPhrases[k])) }

\* C26: _generate_suggestions_for_error gives the suggestions of the first
\* class, in the order missing table, missing column, syntax, ambiguous,
\* constraint, whose phrase the message holds whatever its case, and of that
\* class only; it gives the generic suggestions when the message holds none
\* of the phrases; the result is never empty and does not depend on the
\* tables and columns handed over.
C26_FirstMatchingClass ==
    returned_suggestions # PyNone =>
        LET K == ClassesOf(error_msg)
            r == returned_suggestions[2]
        IN  /\ r # << >>
            /\ K = {} => r = GenericSuggestions
            /\ K # {} => r = ClassSuggestions[CHOOSE k \in K : \A j \in K : k <= j]
            /\ error_msg = << "NO SUCH TABLE: ", "Student" >> => r = ClassSuggestions[1]
            /\ error_msg = << ": syntax error", "no such column: " >> => r = ClassSuggestions[2]
            /\ error_msg = << "incomplete input" >> => r = GenericSuggestions

\* witness of C26: a message in upper case that holds the phrases of two
\* classes got the suggestions of the first, with tables and columns given
C26_Witness ==
    /\ error_msg = << "UNIQUE constraint failed: ", "NO SUCH TABLE: " >>
    /\ passed = << << "Student", "Teacher" >>, << "Sname" >> >>
    /\ returned_suggestions = PyList(ClassSuggestions[1])

-----------------------------------------------------------------------------
(* Properties of a session, checked under SessionSpec *)

\* the positions of validate from its first line to its last stage
ValidateStages ==
    { "v_connect79", "v_load", "v_connect85", "v_empty", "v_syntax", "v_parse", "v_probe" }

\* the commands that read the schema
IntrospectionKinds == { "listing", "PRAGMA table_info" }

\* one step of validate only reads: what it sends are introspection
\* queries or the EXPLAIN of the single parsed statement, and the backend's
\* tables and rows stay
StepOnlyProbes ==
    pc \in ValidateStages =>
        /\ dbTables' = dbTables
        /\ dbRows' = dbRows
        /\ Len(sent') >= Len(sent)
        /\ SubSeq(sent', 1, Len(sent)) = sent
        /\ \A i \in (Len(sent) + 1)..Len(sent') :
             \/ sent'[i].kind \in IntrospectionKinds
             \/ /\ sent'[i].kind = "EXPLAIN"
                /\ Len(Parse(sql_query)) = 1
                /\ sent'[i].text = Parse(sql_query)[1]

\* C27: validate is a read-only probe: in every step of it the commands sent
\* to the backend are schema-introspection queries or the EXPLAIN of the
\* single parsed statement, never the execution of the statement and never
\* a commit, and the tables and rows of the backend are after the step what
\* they were before it, also for INSERT, UPDATE, DELETE and DROP.
C27_ValidateOnlyProbes == [][StepOnlyProbes]_vars

\* witness of C27: validate found DROP TABLE Student valid after an EXPLAIN
\* of it, and the table is still there with its rows
C27_Witness ==
    /\ pc = "done"
    /\ sql_query = << "DROP", "TABLE", "Student" >>
    /\ result = Returned(Valid)
    /\ \E i \in 1..Len(sent) :
         sent[i] = Cmd("EXPLAIN", << "DROP", "TABLE", "Student" >>, ProbeOk)
    /\ "Student" \in dbTables
    /\ dbRows["Student"] = FirstRows

\* the statements of a list, stripped, without the empty ones
NonEmptyStripped(stmts) ==
    SelectSeq([i \in 1..Len(stmts) |-> Strip(stmts[i])], LAMBDA x : x # << >>)

\* validate or the execute_and_visualize that follows it is under way
InFragment ==
    \/ pc \in ValidateStages \cup { "done", "raised" }
    \/ pc = "exec_done" /\ sql_query # << >>

C29_NoConnectionAfterReturn ==
    pc \in { "idle", "done", "exec_done" } => conn = "None" /\ vconn = "None"

\* the executes and the commits among the commands sent
SentOf(kind) == { i \in 1..Len(sent) : sent[i].kind = kind }

\* C30: execute_and_visualize commits exactly when the statement executed
\* without error and its text, stripped and upper-cased, does not start
\* with SELECT; when the connection failed or the execution raised an error
\* there is no commit and the call returns (False, None, None).
C30_CommitsExactlyNonSelectSuccess ==
    pc = "exec_done" =>
        LET q      == exec_query[2]
            ok     == \E i \in SentOf("execute") : sent[i].answer = ProbeOk
            select == NonWs(q) # << >> /\ NonWs(q)[1] \in { "SELECT", "select" }
        IN  /\ Cardinality(SentOf("execute")) <= 1
            /\ \A i \in SentOf("execute") : sent[i].text = q
            /\ (SentOf("commit") # {}) <=> (ok /\ ~select)
            /\ ~ok => exec_result = << FALSE, PyNone, PyNone >>
            /\ ok => exec_result[1] = TRUE

\* witness of C30: a DELETE ran without error, was committed, and emptied
\* the table
C30_Witness ==
    /\ pc = "exec_done"
    /\ exec_query = PyStr(<< "DELETE", "FROM", "Student" >>)
    /\ SentOf("commit") # {}
    /\ exec_result = << TRUE, PyNone, PyNone >>
    /\ dbRows["Student"] = {}

=============================================================================
